---- MODULE Spec2Model ----
(***************************************************************************)
(* Decision and position-lifecycle engine of the Kalshi BTC range bot      *)
(* (src/main.py: monitor_positions, run_bot), with the exchange gateway    *)
(* (src/src/clients/kalshi_client.py) as the venue and the Position Store  *)
(* (src/utils/database.py) as the durable state.                            *)
(*                                                                         *)
(* Units.  Prices and money are integers in cents: a price of 0.40 is 40,  *)
(* a balance of $0.02 is 2.  Probabilities are integers in percent.  A     *)
(* comparison the code makes on IEEE doubles is modelled by the exact      *)
(* integer comparison plus the explicit set of grid points at which the    *)
(* double evaluation differs from it.                                      *)
(***************************************************************************)
EXTENDS Integers, Sequences, FiniteSets, TLC

\* ------------------------------------------------------------------ bounds
MaxCycles  == 2     \* cycles of the while-True loop that are explored
MaxMarkets == 2     \* length of the raw market list one scan returns
MaxStore   == 2     \* positions the store holds before entries stop
MaxCands   == 5     \* markets listed in the entry-phase specification

\* ----------------------------------------------------------- configuration
ENTRY_THRESHOLD      == 15       \* weather_strategy: 0.15, in cents
EXIT_THRESHOLD       == 45       \* weather_strategy: 0.45, in cents
MAX_POSITION_USD     == 100      \* weather_strategy: 1.00 dollar, in cents
MAX_HOLD_HOURS       == 168      \* max_hold_hours of every Position of run_bot
MAX_TRADE_USD        == 200      \* 2.0 dollars, int(MAX_TRADE_USD * 100)
SCAN_INTERVAL_MINS   == 2
MAX_EXPOSURE_PCT     == 99       \* 0.99
MAX_TRADES_PER_CYCLE == 3
TIME_MIN_MINS        == 5
TIME_MAX_MINS        == 30000
MIN_EDGE             == 8        \* 0.08
STOP_LOSS_PCT        == 40       \* 0.40
EDGE_FLIP_LOSS_PCT   == 5        \* the 0.05 of "edge_flipped and loss > 0.05"
TP_NO_YES_ASK        == 5        \* take profit (NO): yes_ask <= 5
TP_YES_BID           == 80       \* take profit (YES): yes_bid >= 80
PAPER_BALANCE        == 100000   \* balance = 1000.0 in paper mode

Tickers == {"KXBTC-A", "KXBTC-B"}

NoExit == 0 - 1                  \* exit_price of a position still open
NoProb == 0 - 1                  \* model probability not available

Max(a, b) == IF a >= b THEN a ELSE b
Min(a, b) == IF a <= b THEN a ELSE b

\* str.lower() on the result strings the venue sends
Lower(s) == CASE s = "YES" -> "yes"
              [] s = "NO"  -> "no"
              [] OTHER     -> s

\* ------------------------------------------------------- Position Store
\* The store is a sequence of Position records; a position's id is its index.
MkPosition(mid, sd, price, qty, isLive) ==
    [market_id |-> mid, side |-> sd, entry_price |-> price, quantity |-> qty,
     status |-> "open", exit_price |-> NoExit, pnl |-> 0,
     live |-> isLive, strategy |-> "vol_edge",
     max_hold_hours |-> MAX_HOLD_HOURS]

\* db.get_open_positions(): ids of the open positions, in insertion order
OpenIds(st) == SelectSeq([i \in 1..Len(st) |-> i], LAMBDA i : st[i].status = "open")

OpenPositions(st) == {i \in 1..Len(st) : st[i].status = "open"}

\* db.add_position(pos)
AddPosition(st, pos) == Append(st, pos)

\* db.close_position_with_pnl(pos, exit_value)
ClosePositionWithPnl(st, i, exitv) ==
    [st EXCEPT ![i] = [@ EXCEPT !.status = "closed",
                                !.exit_price = exitv,
                                !.pnl = (exitv - st[i].entry_price) * st[i].quantity]]

\* The analyses table is kept as the set of tickers with an analysis recorded
\* within the last two hours (the window run_bot asks for).
\* db.was_recently_analyzed(ticker, hours=2)
WasRecentlyAnalyzed(an, tk) == tk \in an

\* db.record_market_analysis(market_id=ticker, ...)
RecordMarketAnalysis(an, tk) == an \cup {tk}

\* ------------------------------------------------- venue data (inputs)
\* One market as kalshi.get_market / get_btc_markets returns it.  A quote the
\* venue omits is 0 (".get(...) or 0").  mins_left is the time to close in
\* minutes at the time of the call, NoProb when close_time does not parse.
\* strikes says whether floor_strike and cap_strike are both present.  model is
\* range_probability(btc, floor, cap, vol_pm, mins_left) for this market in
\* percent (its arguments other than mins_left are not modelled here).
Market(tk, st, res, ya, yb, na, nb, mins, strikes, prob) ==
    [ticker |-> tk, status |-> st, result |-> res,
     yes_ask |-> ya, yes_bid |-> yb, no_ask |-> na, no_bid |-> nb,
     mins_left |-> mins, strikes |-> strikes, model |-> prob]

\* a market of daily high temperatures, traded by run_weather_bot; its
\* strikes are degrees, so that range_probability of the BTC price is 0
WeatherTicker == "KXHIGHNY"

\* What kalshi.get_market(pos.market_id) may answer in the monitor, over the
\* life of each market.  KXBTC-A is the market this model buys YES in, KXBTC-B
\* the one it buys NO in (see ScanMarkets); KXBTC-C is a market bought YES at
\* 85 cents (see MonitorSpec).
MonitorMarkets(tk) ==
    IF tk = WeatherTicker
    THEN { Market(tk, "active", "", 12, 10, 90, 88, 600, TRUE, 0),     \* flat
           Market(tk, "active", "", 11, 9, 91, 89, 600, TRUE, 0),      \* down 10%
           Market(tk, "active", "", 8, 5, 95, 92, 600, TRUE, 0),       \* down 50%
           Market(tk, "active", "", 50, 46, 54, 50, 600, TRUE, 0),     \* yes_bid 46
           Market(tk, "active", "", 0, 0, 0, 0, 600, TRUE, 0),         \* no quotes
           Market(tk, "settled", "yes", 0, 0, 0, 0, 0, TRUE, NoProb),
           Market(tk, "finalized", "no", 1, 0, 99, 98, 0, TRUE, NoProb) }
    ELSE IF tk = "KXBTC-C"
    THEN { Market(tk, "active", "", 82, 80, 20, 18, 600, TRUE, 70),    \* yes_bid 80, model low
           Market(tk, "active", "", 82, 80, 20, 18, 600, TRUE, 90),    \* yes_bid 80
           Market(tk, "active", "", 90, 88, 12, 10, 600, TRUE, 95),    \* ahead
           Market(tk, "active", "", 60, 55, 45, 40, 600, TRUE, 90),    \* yes_bid 55
           Market(tk, "active", "", 53, 51, 47, 45, 600, TRUE, 90),    \* yes_bid 51
           Market(tk, "active", "", 50, 0, 0, 0, 600, TRUE, 20),       \* no bid, model low
           Market(tk, "active", "", 84, 83, 17, 16, 600, TRUE, NoProb),\* no model value
           Market(tk, "settled", "yes", 60, 55, 45, 40, 0, TRUE, NoProb),
           Market(tk, "finalized", "NO", 82, 80, 20, 18, 0, TRUE, NoProb),
           Market(tk, "closed", "", 82, 80, 20, 18, 0, TRUE, NoProb) }
    ELSE IF tk = "KXBTC-A"
    THEN { Market(tk, "active", "", 50, 45, 55, 50, 600, TRUE, 10),    \* ahead, model low
           Market(tk, "active", "", 28, 26, 74, 72, 600, TRUE, 60),    \* yes_bid 26
           Market(tk, "active", "", 29, 27, 73, 71, 600, TRUE, 20),    \* yes_bid 27, model low
           Market(tk, "active", "", 26, 24, 76, 74, 600, TRUE, 60),    \* yes_bid 24
           Market(tk, "active", "", 82, 80, 20, 18, 600, TRUE, 85),    \* yes_bid 80
           Market(tk, "active", "", 0, 0, 0, 0, NoProb, FALSE, NoProb),\* no quotes at all
           Market(tk, "settled", "yes", 0, 0, 0, 0, 0, TRUE, NoProb),
           Market(tk, "finalized", "NO", 99, 98, 2, 1, 0, TRUE, NoProb),
           Market(tk, "closed", "void", 50, 48, 52, 50, 0, TRUE, NoProb),
           Market(tk, "closed", "", 26, 24, 76, 74, 0, TRUE, NoProb) }
    ELSE { Market(tk, "active", "", 20, 18, 82, 80, 600, TRUE, 15),    \* yes_ask 20
           Market(tk, "active", "", 70, 68, 32, 30, 600, TRUE, 90),    \* NO down, model high
           Market(tk, "active", "", 82, 80, 20, 18, 600, TRUE, 85),    \* yes_ask 82
           Market(tk, "active", "", 82, 80, 20, 0, 600, TRUE, 85),     \* yes_ask 82, no NO bid
           Market(tk, "active", "", 5, 3, 97, 94, 600, TRUE, 2),       \* yes_ask 5
           Market(tk, "active", "", 4, 2, 0, 0, 600, TRUE, 2),         \* yes_ask 4, no NO bid
           Market(tk, "active", "", 0, 0, 0, 0, NoProb, FALSE, NoProb),\* no quotes at all
           Market(tk, "settled", "yes", 0, 0, 0, 0, 0, TRUE, NoProb),
           Market(tk, "finalized", "NO", 99, 98, 2, 1, 0, TRUE, NoProb),
           Market(tk, "closed", "void", 50, 48, 52, 50, 0, TRUE, NoProb) }

\* ------------------------------------------------------ Position Monitor
\* Settlement test and exit value (monitor_positions, "Settlement")
IsSettled(m) == m.status \in {"settled", "closed", "finalized"} /\ m.result # ""

\* the settlement exit with the held side left out of account (fault model for C8)
SettlementExitIgnoringSide(pos, m) ==
    IF Lower(m.result) = "yes" THEN 100
    ELSE IF Lower(m.result) = "no" THEN 0
    ELSE pos.entry_price

SettlementExitValue(pos, m) ==
    IF Lower(m.result) = "yes" THEN (IF pos.side = "YES" THEN 100 ELSE 0)
    ELSE IF Lower(m.result) = "no" THEN (IF pos.side = "YES" THEN 0 ELSE 100)
    ELSE pos.entry_price

\* Take-profit triggers
TakeProfitNo(pos, m)  == pos.side = "NO" /\ m.yes_ask > 0 /\ m.yes_ask <= TP_NO_YES_ASK
TakeProfitYes(pos, m) == pos.side = "YES" /\ m.yes_bid >= TP_YES_BID

TakeProfitExit(pos, m) ==
    IF pos.side = "NO"
    THEN (IF m.no_bid > 0 THEN m.no_bid ELSE 100 - m.yes_ask)
    ELSE m.yes_bid

\* the held side valued at the raw YES quote (fault model for C11)
CurrValRawQuote(pos, m) ==
    IF pos.side = "NO"
    THEN (IF m.yes_ask # 0 THEN m.yes_ask ELSE pos.entry_price)
    ELSE (IF m.yes_bid # 0 THEN m.yes_bid ELSE pos.entry_price)

\* the held side valued at its quote even when the quote is missing (fault
\* model for C40)
CurrValWithoutFallback(pos, m) ==
    IF pos.side = "NO" THEN 100 - m.yes_ask ELSE m.yes_bid

\* curr_val: value of the held side
CurrVal(pos, m) ==
    IF pos.side = "NO"
    THEN (IF m.yes_ask # 0 THEN 100 - m.yes_ask ELSE pos.entry_price)
    ELSE (IF m.yes_bid # 0 THEN m.yes_bid ELSE pos.entry_price)

\* unrealized_loss_pct >= STOP_LOSS_PCT, for entry e and current value c.
\* At the listed points the exact ratio is 0.40 and the double is
\* 0.39999999999999997.
FloatUnderStop == {<<35, 21>>, <<45, 27>>, <<70, 42>>, <<75, 45>>, <<85, 51>>, <<90, 54>>}

LossMeetsStop(e, c) ==
    /\ e # 0
    /\ 100 * (e - c) >= STOP_LOSS_PCT * e
    /\ <<e, c>> \notin FloatUnderStop

\* unrealized_loss_pct > 0.05.  At the listed points the exact ratio is 0.05
\* and the double is 0.050000000000000044.
FloatOverFlipLoss == {<<20, 19>>, <<40, 38>>, <<60, 57>>, <<80, 76>>}

\* the soft stop without its loss condition (fault model for C10)
LossExceedsFlipAlways(e, c) == TRUE

LossExceedsFlip(e, c) ==
    /\ e # 0
    /\ \/ 100 * (e - c) > EDGE_FLIP_LOSS_PCT * e
       \/ <<e, c>> \in FloatOverFlipLoss

\* model_prob > 1 - no_ask/100: at model + no_ask = 100 the double on the
\* right is below the exact value for these model percentages.
FloatOverNoFlip == {7, 8, 9, 10, 11, 19, 20, 21, 22, 23, 32, 33, 34, 44, 45, 46, 66, 67, 68, 93}

\* a model-based stop evaluated in both passes (fault model for C33)
EdgeFlippedInEveryPass(pos, m, hasModel) ==
    /\ m.mins_left # NoProb /\ m.strikes /\ m.mins_left > 0
    /\ m.model # NoProb
    /\ IF pos.side = "YES"
       THEN m.model < m.yes_ask
       ELSE m.model > 100 - m.no_ask

\* edge_flipped: the model-based stop, evaluated only with btc and vol_pm
EdgeFlipped(pos, m, hasModel) ==
    /\ hasModel
    /\ m.mins_left # NoProb /\ m.strikes /\ m.mins_left > 0
    /\ m.model # NoProb
    /\ IF pos.side = "YES"
       THEN m.model < m.yes_ask
       ELSE \/ m.model > 100 - m.no_ask
            \/ (m.model = 100 - m.no_ask /\ m.model \in FloatOverNoFlip)

\* the model-based check raises on a close_time that does not parse; the
\* exception is dropped by "except Exception: pass"
EdgeCheckRaises(m, hasModel) == hasModel /\ m.mins_left = NoProb

ShouldStop(pos, m, hasModel) ==
    \/ LossMeetsStop(pos.entry_price, CurrVal(pos, m))
    \/ (EdgeFlipped(pos, m, hasModel) /\ LossExceedsFlip(pos.entry_price, CurrVal(pos, m)))

\* The result of handling one position in one monitor pass.
\*   rule      "settle", "tp", "sl": the rule that closed the position;
\*             "none": status display reached; "error": an exception was
\*             caught by the per-position handler
\*   closed    db.close_position_with_pnl was applied
\*   hard_stop unrealized_loss_pct >= STOP_LOSS_PCT was found true
\*   sends     number of kalshi.close_position calls made
\*   accepted  a close_position call returned a non-null result
\*   caught    exceptions caught by a handler while the position was handled
\*   logged    of these, the ones reported with a printed line
\*   exits     EXIT entries appended to logs/trades.log
NoOutcome ==
    [rule |-> "", closed |-> FALSE, exit_value |-> NoExit, pnl |-> 0,
     curr_val |-> NoExit, tp_match |-> FALSE, edge_flipped |-> FALSE,
     hard_stop |-> FALSE, should_stop |-> FALSE, sends |-> 0, accepted |-> FALSE,
     caught |-> 0, logged |-> 0, exits |-> 0]

\* "except Exception as e: print(...Error checking...)": the handler of one
\* iteration of the monitor loop catches the exception and prints a line
CaughtPerPosition(o) ==
    [o EXCEPT !.rule = "error", !.caught = @ + 1, !.logged = @ + 1]

\* a monitor that does not look at the answer (fault model for C6)
OrderResultIgnored(r) == TRUE

\* "if r is None: fall through, else: close": the answer r of
\* kalshi.close_position lets the monitor record the close
OrderResultOk(r) == r # "rejected"

\* close in the store and log the exit; the store call may raise, and
\* write_trade_log drops the entry when the file cannot be written
\* ("except OSError: pass")
CloseOutcome(o, pos, rule, exitv, dbOk, logOk) ==
    IF dbOk
    THEN [o EXCEPT !.rule = rule, !.closed = TRUE, !.exit_value = exitv,
                   !.pnl = (exitv - pos.entry_price) * pos.quantity,
                   !.exits = IF logOk THEN @ + 1 ELSE @,
                   !.caught = IF logOk THEN @ ELSE @ + 1]
    ELSE CaughtPerPosition(o)

\* a stage that records the current value in the store and the trade log for
\* every position it values (fault model for C34)
StopLossStageRecordsValue(o0, pos, m, isLive, hasModel, r, orderRaises, dbOk, logOk) ==
    CloseOutcome([o0 EXCEPT !.curr_val = CurrVal(pos, m)], pos, "none",
                 CurrVal(pos, m), dbOk, logOk)

\* a stop-loss stage that sends its closing order in paper mode too (fault
\* model for C38)
StopLossStageAlwaysSends(o0, pos, m, isLive, hasModel, r, orderRaises, dbOk, logOk) ==
    LET cv == CurrVal(pos, m)
        o  == [o0 EXCEPT !.curr_val = cv,
                         !.edge_flipped = EdgeFlipped(pos, m, hasModel),
                         !.hard_stop = LossMeetsStop(pos.entry_price, cv),
                         !.should_stop = ShouldStop(pos, m, hasModel),
                         !.caught = IF EdgeCheckRaises(m, hasModel) THEN @ + 1 ELSE @]
        canSend == \/ (pos.side = "NO" /\ m.no_bid > 0)
                   \/ (pos.side = "YES" /\ m.yes_bid > 0)
    IN  IF ~o.should_stop THEN [o EXCEPT !.rule = "none"]
        ELSE IF ~canSend THEN [o EXCEPT !.rule = "none"]
        ELSE IF orderRaises THEN CaughtPerPosition([o EXCEPT !.sends = @ + 1])
        ELSE IF ~OrderResultOk(r) THEN [o EXCEPT !.rule = "none", !.sends = @ + 1]
        ELSE CloseOutcome([o EXCEPT !.sends = @ + 1, !.accepted = (r = "ok")],
                          pos, "sl", cv, dbOk, logOk)

\* Stop-loss stage (src/main.py 215-275), entered with the outcome so far
StopLossStage(o0, pos, m, isLive, hasModel, r, orderRaises, dbOk, logOk) ==
    LET cv == CurrVal(pos, m)
        o  == [o0 EXCEPT !.curr_val = cv,
                         !.edge_flipped = EdgeFlipped(pos, m, hasModel),
                         !.hard_stop = LossMeetsStop(pos.entry_price, cv),
                         !.should_stop = ShouldStop(pos, m, hasModel),
                         !.caught = IF EdgeCheckRaises(m, hasModel) THEN @ + 1 ELSE @]
        canSend == \/ (pos.side = "NO" /\ m.no_bid > 0)
                   \/ (pos.side = "YES" /\ m.yes_bid > 0)
    IN  IF ~o.should_stop THEN [o EXCEPT !.rule = "none"]
        ELSE IF ~isLive THEN CloseOutcome(o, pos, "sl", cv, dbOk, logOk)
        ELSE IF ~canSend THEN [o EXCEPT !.rule = "none"]
        ELSE IF orderRaises THEN CaughtPerPosition([o EXCEPT !.sends = @ + 1])
        ELSE IF ~OrderResultOk(r) THEN [o EXCEPT !.rule = "none", !.sends = @ + 1]
        ELSE CloseOutcome([o EXCEPT !.sends = @ + 1, !.accepted = (r = "ok")],
                          pos, "sl", cv, dbOk, logOk)

\* One iteration of the loop of monitor_positions (src/main.py 138-278).
\*   fail  "get_market", "order", "store": the call that raises; "log": the
\*         trade log cannot be written; or "none"
\*   rej   how many kalshi.close_position calls the venue rejects (returns
\*         None for): 0, the first one only (1), or both (2)
MonitorEval(pos, m, isLive, hasModel, fail, rej) ==
    LET dbOk == fail # "store"
        logOk == fail # "log"
        r1   == IF rej >= 1 THEN "rejected" ELSE "ok"
        r2   == IF rej >= 2 THEN "rejected" ELSE "ok"
        r    == IF rej >= 1 THEN "rejected" ELSE "ok"
        tp   == TakeProfitNo(pos, m) \/ TakeProfitYes(pos, m)
        o    == [NoOutcome EXCEPT !.tp_match = tp]
        tpx  == TakeProfitExit(pos, m)
        tpSend == isLive /\ (pos.side = "NO" => m.no_bid > 0)
    IN  IF fail = "get_market" THEN CaughtPerPosition(NoOutcome)
        ELSE IF IsSettled(m)
             THEN CloseOutcome(NoOutcome, pos, "settle", SettlementExitValue(pos, m),
                               dbOk, logOk)
        ELSE IF tp /\ ~isLive THEN CloseOutcome(o, pos, "tp", tpx, dbOk, logOk)
        ELSE IF tp /\ tpSend /\ fail = "order"
             THEN CaughtPerPosition([o EXCEPT !.sends = 1])
        ELSE IF tp /\ tpSend /\ OrderResultOk(r1)
             THEN CloseOutcome([o EXCEPT !.sends = 1, !.accepted = (r1 = "ok")],
                               pos, "tp", tpx, dbOk, logOk)
        ELSE IF tp /\ tpSend
             THEN StopLossStage([o EXCEPT !.sends = 1], pos, m, isLive, hasModel,
                                r2, FALSE, dbOk, logOk)
        ELSE StopLossStage(o, pos, m, isLive, hasModel, r, fail = "order", dbOk, logOk)

\* a monitor whose handler encloses the loop, so that an exception ends the
\* pass (fault model for C22)
MonitorRestEndsOnError(q, o) == IF o.rule = "error" THEN <<>> ELSE Tail(q)

\* "for pos in positions" with the per-position handler: the positions left
\* for the pass after one iteration, whatever its outcome o
MonitorRest(q, o) == Tail(q)

\* ------------------------------------------------ Candidate Scanner
\* What the events API may list for a ticker (one entry of a raw page).
ScanMarkets(tk) ==
    IF tk = "KXBTC-A"
    THEN { Market(tk, "active", "", 40, 38, 62, 60, 600, TRUE, 60),      \* YES edge 20
           Market(tk, "active", "", 50, 47, 53, 50, 600, TRUE, 50),      \* no edge
           Market(tk, "active", "", 40, 38, 62, 60, 3, TRUE, 60) }       \* closes too soon
    ELSE { Market(tk, "active", "", 70, 67, 0, 0, 1080, TRUE, 20),       \* NO edge 47, no NO ask
           Market(tk, "active", "", 30, 0, 0, 0, 600, TRUE, 40),         \* no bid
           Market(tk, "active", "", 70, 67, 0, 0, NoProb, TRUE, NoProb) } \* bad close_time

AllScanMarkets == UNION {ScanMarkets(tk) : tk \in Tickers}

\* sequences of length at most n over S
RECURSIVE SeqsUpTo(_, _)
SeqsUpTo(S, n) ==
    IF n = 0 THEN {<<>>}
    ELSE LET shorter == SeqsUpTo(S, n - 1)
         IN  shorter \cup {Append(q, x) : q \in {r \in shorter : Len(r) = n - 1}, x \in S}

\* the nested markets of the events the venue returns, duplicates possible
RawMarketLists == SeqsUpTo(AllScanMarkets, MaxMarkets)

\* KalshiClient.get_btc_markets: first occurrence of each non-empty ticker
RECURSIVE DedupFrom(_, _, _)
DedupFrom(raw, i, seen) ==
    IF i > Len(raw) THEN <<>>
    ELSE IF raw[i].ticker # "" /\ raw[i].ticker \notin seen
         THEN <<raw[i]>> \o DedupFrom(raw, i + 1, seen \cup {raw[i].ticker})
         ELSE DedupFrom(raw, i + 1, seen)

GetBtcMarkets(raw) == DedupFrom(raw, 1, {})

\* edge_yes >= MIN_EDGE and edge_no >= MIN_EDGE on doubles.  When the exact
\* edge is 0.08 the double falls short of 0.08 for these model percentages.
FloatShortYes == {12, 15, 18, 21, 22, 24, 25, 29, 30, 31, 35, 36, 41, 42, 47, 48,
                  57, 58, 59, 60, 61, 62, 63, 64, 69, 70, 71, 72, 73, 74, 75, 76,
                  82, 83, 84, 85, 86, 87, 88, 89, 94, 95, 96, 97, 98, 99, 100}
FloatShortNo  == {0, 1, 2, 3, 4, 5, 6, 7, 11, 12, 13, 14, 15, 16, 17, 24, 25, 26,
                  27, 28, 29, 30, 31, 32, 33, 34, 36, 37, 38, 39, 40, 52, 53, 54,
                  55, 56, 64, 65, 66, 67, 68, 75, 76, 77, 78, 79, 80, 81, 88, 89,
                  90, 91, 92}

NoAskPrice(m) == IF 0 < m.no_ask /\ m.no_ask < 100 THEN m.no_ask ELSE 100 - m.yes_bid

\* the YES edge taken against the midpoint (fault model for C12)
EdgeYesAtMid(m) == m.model - ((m.yes_ask + m.yes_bid) \div 2)

EdgeYes(m) == m.model - m.yes_ask
EdgeNo(m)  == (100 - m.model) - NoAskPrice(m)

EdgeYesMeets(m) ==
    EdgeYes(m) > MIN_EDGE \/ (EdgeYes(m) = MIN_EDGE /\ m.model \notin FloatShortYes)
EdgeNoMeets(m) ==
    EdgeNo(m) > MIN_EDGE \/ (EdgeNo(m) = MIN_EDGE /\ m.model \notin FloatShortNo)

\* the scan filters without "if ticker in held: continue" (fault model for C1)
ScannableIgnoringHeld(m, heldSet) ==
    /\ m.mins_left # NoProb
    /\ TIME_MIN_MINS <= m.mins_left /\ m.mins_left <= TIME_MAX_MINS
    /\ m.yes_bid > 0
    /\ m.strikes
    /\ m.yes_ask > 0 /\ m.yes_ask < 100

\* the scan filters with the bounds of the time window left out of it
\* (fault model for C35)
ScannableInsideWindow(m, heldSet) ==
    /\ m.ticker \notin heldSet
    /\ m.mins_left # NoProb
    /\ TIME_MIN_MINS < m.mins_left /\ m.mins_left < TIME_MAX_MINS
    /\ m.yes_bid > 0
    /\ m.strikes
    /\ m.yes_ask > 0 /\ m.yes_ask < 100

\* the filters of the scan loop before the edge (src/main.py 355-381)
Scannable(m, heldSet) ==
    /\ m.ticker \notin heldSet
    /\ m.mins_left # NoProb
    /\ TIME_MIN_MINS <= m.mins_left /\ m.mins_left <= TIME_MAX_MINS
    /\ m.yes_bid > 0
    /\ m.strikes
    /\ m.yes_ask > 0 /\ m.yes_ask < 100

ChosenSide(m) == IF EdgeYesMeets(m) THEN "YES" ELSE IF EdgeNoMeets(m) THEN "NO" ELSE ""

\* a scan that prices every candidate at the YES ask (fault model for C26)
PriceCentsAtYesAsk(m) == m.yes_ask

\* price_cents of the candidate: "price_cents = yes_ask" / "price_cents = no_ask_price"
PriceCents(m) == IF ChosenSide(m) = "YES" THEN m.yes_ask ELSE NoAskPrice(m)

IsCandidate(m, heldSet) ==
    /\ Scannable(m, heldSet)
    /\ ChosenSide(m) # ""
    /\ PriceCents(m) > 0 /\ PriceCents(m) < 100

Abs(x) == IF x < 0 THEN 0 - x ELSE x

Candidate(m) ==
    LET sd == ChosenSide(m)
        ed == IF sd = "YES" THEN EdgeYes(m) ELSE EdgeNo(m)
    IN  [ticker |-> m.ticker, side |-> sd, price_cents |-> PriceCents(m),
         edge |-> ed, abs_edge |-> Abs(ed), model_prob |-> m.model]

\* candidates.sort(key=abs_edge, reverse=True): stable, descending
RECURSIVE InsertDesc(_, _)
InsertDesc(c, sorted) ==
    IF sorted = <<>> THEN <<c>>
    ELSE IF Head(sorted).abs_edge >= c.abs_edge
         THEN <<Head(sorted)>> \o InsertDesc(c, Tail(sorted))
         ELSE <<c>> \o sorted

RECURSIVE SortFrom(_, _, _)
SortFrom(cs, i, acc) ==
    IF i > Len(cs) THEN acc ELSE SortFrom(cs, i + 1, InsertDesc(cs[i], acc))

\* the candidates left in scan order (fault model for C14)
LeftUnsorted(cs) == cs

SortByAbsEdge(cs) == SortFrom(cs, 1, <<>>)

RECURSIVE CollectFrom(_, _, _)
CollectFrom(ms, i, heldSet) ==
    IF i > Len(ms) THEN <<>>
    ELSE IF IsCandidate(ms[i], heldSet)
         THEN <<Candidate(ms[i])>> \o CollectFrom(ms, i + 1, heldSet)
         ELSE CollectFrom(ms, i + 1, heldSet)

\* Phase 4: the ranked candidates of one scan
Scan(ms, heldSet) == SortByAbsEdge(CollectFrom(ms, 1, heldSet))

\* the diagnostic printed when no candidate is found parses close_time of the
\* first three liquid markets outside any handler (src/main.py 442-461)
DiagnosticRaises(ms) ==
    LET liquid == SelectSeq(ms, LAMBDA m : m.yes_bid > 0)
    IN  \E i \in 1..Min(3, Len(liquid)) :
            liquid[i].strikes /\ liquid[i].mins_left = NoProb

\* the quantity sized in dollars per cent, without the floor of one contract
\* (fault model for C18)
QuantityUnscaled(price) == (MAX_TRADE_USD \div 100) \div price

\* the budget divided by the price and rounded up (fault model for C36)
QuantityRoundedUp(price) == Max(1, (MAX_TRADE_USD + price - 1) \div price)

\* quantity = max(1, int(MAX_TRADE_USD * 100) // price_cents)
Quantity(price) == Max(1, MAX_TRADE_USD \div price)

\* count sent by KalshiClient.place_market_order
OrderCount(price) == Max(1, MAX_TRADE_USD \div Max(1, price))

\* ------------------------------------------------- Risk Controller
RECURSIVE ExposureFrom(_, _)
ExposureFrom(st, i) ==
    IF i > Len(st) THEN 0
    ELSE (IF st[i].status = "open" THEN st[i].entry_price * st[i].quantity ELSE 0)
         + ExposureFrom(st, i + 1)

\* exposure = sum(p.entry_price * p.quantity for p in positions), in cents
Exposure(st) == ExposureFrom(st, 1)

\* held = {p.market_id for p in positions}
Held(st) == {st[i].market_id : i \in OpenPositions(st)}

\* the breaker with ">" in place of ">=" (fault model for C4)
ExposureBreakerStrict(bal, expo) ==
    IF bal + expo > 0 THEN 100 * expo > MAX_EXPOSURE_PCT * (bal + expo) ELSE TRUE

\* exp_pct >= MAX_EXPOSURE_PCT with exp_pct = exposure / total if total > 0 else 1.0
ExposureBreaker(bal, expo) ==
    IF bal + expo > 0 THEN 100 * expo >= MAX_EXPOSURE_PCT * (bal + expo) ELSE TRUE

\* reconciliation that writes the position off (fault model for C7)
ReconcileExitZero(pos) == 0

\* db.close_position_with_pnl(p, p.entry_price): the exit value of a reconciled position
ReconcileExitValue(pos) == pos.entry_price

\* reconciliation loop: close at entry price every open position the venue
\* does not hold; failAt = k > 0 makes the k-th store close raise
RECURSIVE ReconcileFrom(_, _, _, _, _)
ReconcileFrom(st, ids, lp, k, failAt) ==
    IF ids = <<>> THEN st
    ELSE LET i == Head(ids)
         IN  IF lp[st[i].market_id] = 0
             THEN IF k = failAt THEN st
                  ELSE ReconcileFrom(ClosePositionWithPnl(st, i, ReconcileExitValue(st[i])),
                                     Tail(ids), lp, k + 1, failAt)
             ELSE ReconcileFrom(st, Tail(ids), lp, k, failAt)

\* reconciliation over every stored position, closed ones included (fault
\* model for C19)
ReconcileEveryPosition(st, lp, failAt) ==
    ReconcileFrom(st, [i \in 1..Len(st) |-> i], lp, 1, failAt)

Reconcile(st, lp, failAt) == ReconcileFrom(st, OpenIds(st), lp, 1, failAt)

\* number of store closes the reconciliation wants to make
ReconcileCount(st, lp) == Cardinality({i \in OpenPositions(st) : lp[st[i].market_id] = 0})

\* ------------------------------------------------- Probability Model
\* A BTC price or a strike is kept as its natural logarithm in units of 1e-4
\* (a price of 98,716 dollars is 115000); 0 stands for a sample that is not
\* positive.  A volatility per minute is kept as its square, the fraction
\* num / den in units of 1e-8.  Times are whole minutes.
VOL_LOOKBACK    == 30
DEFAULT_ANN_VOL == 55       \* 0.55
MIN_ANN_VOL     == 20       \* 0.20
MINS_PER_YEAR   == 525600   \* the 525_600 of "math.sqrt(525_600)"
VOL_MIN_SAMPLES == 5        \* the 5 of "if len(prices) < 5"
VOL_MIN_RETURNS == 3        \* the 3 of "if len(log_rets) < 3"

\* "floor_s <= btc <= cap_s"
InRange(btc, floor_s, cap_s) == floor_s <= btc /\ btc <= cap_s

\* "sigma_t < 1e-9" for sigma_t = vol_per_min * sqrt(mins) and whole minutes:
\* with den below 1e10 the square of sigma_t, vol * mins, is at least 1e-18
\* unless it is 0
SigmaNegligible(vol, mins) == vol.num * mins = 0

\* a range_probability without its test of the time left (fault model for C28)
NoTimeLeftNever(mins) == FALSE

\* "if mins <= 0"
NoTimeLeft(mins) == mins <= 0

\* range_probability: the probability in percent and the branch that gave it.
\* The value of the general formula, normal_cdf(d_cap) - normal_cdf(d_floor)
\* clamped to [0, 1], is an input of this model (Market.model) and is left
\* open here.
RangeProbability(btc, floor_s, cap_s, vol, mins) ==
    IF NoTimeLeft(mins)
    THEN [branch |-> "no_time", value |-> IF InRange(btc, floor_s, cap_s) THEN 100 ELSE 0]
    ELSE IF SigmaNegligible(vol, mins)
    THEN [branch |-> "no_variance", value |-> IF InRange(btc, floor_s, cap_s) THEN 100 ELSE 0]
    ELSE [branch |-> "general", value |-> NoProb]

\* ------------------------------------------------ Volatility Estimator
\* DEFAULT_ANN_VOL / math.sqrt(525_600) and MIN_ANN_VOL / math.sqrt(525_600)
VolDefault == [num |-> DEFAULT_ANN_VOL * DEFAULT_ANN_VOL * 10000, den |-> MINS_PER_YEAR]
VolFloor   == [num |-> MIN_ANN_VOL * MIN_ANN_VOL * 10000, den |-> MINS_PER_YEAR]

\* no volatility estimated
NoVol == [num |-> 0, den |-> 1]

\* log_rets: the log returns of the consecutive pairs of positive samples
RECURSIVE LogReturnsFrom(_, _)
LogReturnsFrom(prices, i) ==
    IF i > Len(prices) THEN <<>>
    ELSE IF prices[i - 1] > 0 /\ prices[i] > 0
         THEN <<prices[i] - prices[i - 1]>> \o LogReturnsFrom(prices, i + 1)
         ELSE LogReturnsFrom(prices, i + 1)

LogReturns(prices) == LogReturnsFrom(prices, 2)

RECURSIVE SumOf(_)
SumOf(xs) == IF xs = <<>> THEN 0 ELSE Head(xs) + SumOf(Tail(xs))

RECURSIVE SumOfSquares(_)
SumOfSquares(xs) == IF xs = <<>> THEN 0 ELSE Head(xs) * Head(xs) + SumOfSquares(Tail(xs))

\* (stdev(log_rets) / sqrt(2)) squared: the sample variance over n - 1, halved
RealizedVol(rets) ==
    LET n == Len(rets)
    IN  [num |-> n * SumOfSquares(rets) - SumOf(rets) * SumOf(rets),
         den |-> 2 * n * (n - 1)]

\* a >= b for two volatilities
VolAtLeast(a, b) == a.num * b.den >= b.num * a.den

\* the default kept until six samples are there (fault model for C27)
TooFewSamplesBelowSix(n) == n < VOL_MIN_SAMPLES + 1

\* "if len(prices) < 5"
TooFewSamples(n) == n < VOL_MIN_SAMPLES

\* estimate_vol(prices)
EstimateVol(prices) ==
    IF TooFewSamples(Len(prices)) THEN VolDefault
    ELSE LET log_rets == LogReturns(prices)
         IN  IF Len(log_rets) < VOL_MIN_RETURNS THEN VolDefault
             ELSE IF VolAtLeast(RealizedVol(log_rets), VolFloor)
                  THEN RealizedVol(log_rets)
                  ELSE VolFloor

\* btc_prices.append(btc) on a deque(maxlen=VOL_LOOKBACK)
AppendSample(q, x) ==
    IF Len(q) >= VOL_LOOKBACK THEN Append(Tail(q), x) ELSE Append(q, x)

\* ------------------------------------------------------------- state
VARIABLES
    live,       \* LIVE_MODE
    pc,         \* position of run_bot inside its cycle
    cycle,      \* number of the current cycle
    store,      \* Position Store: sequence of Position records
    analyzed,   \* Position Store: tickers analyzed within the cooldown window
    venue,      \* contracts the venue holds for this account, per ticker
    balance,    \* run_bot: balance of this cycle (NoBalance before it is read)
    exposure,   \* run_bot: exposure of this cycle (NoBalance before it is computed)
    held,       \* run_bot: held
    mq,         \* monitor_positions: the open positions still to handle
    cands,      \* run_bot: ranked candidates still to execute
    trades,     \* run_bot: trades_this_cycle
    orders,     \* entry orders sent to the venue in this cycle (history)
    passes,     \* monitor passes started in this cycle (history)
    cooling,    \* tickers with a position closed or an entry order rejected
                \* within the last two hours (history)
    ev,         \* what the last step did (history)
    late_exits  \* positions the second monitor pass has closed in this cycle,
                \* kept until the market list is fetched (history)

vars == <<live, pc, cycle, store, analyzed, venue, balance, exposure, held,
          mq, cands, trades, orders, passes, cooling, ev, late_exits>>

NoBalance == 0 - 1

\* balances kalshi.get_balance() may report, in cents
Balances == {0, 2, 22}

\* the market of a step that scans none
NoMarket == Market("", "", "", 0, 0, 0, 0, NoProb, FALSE, NoProb)

\* kind    "monitor", "reconcile", "exposure", "btc_failed", "scan", "entry",
\*         "cap" (the loop over the candidates broke at the trade cap),
\*         "list_failed" (kalshi.get_btc_markets raised), "cycle_error"
\*         (another first call of a phase raised), "window", "vol", "prob",
\*         "none"
\* every kind: caught, the exceptions a handler caught in the step; logged,
\*          the ones of them reported with a printed line; enters and exits,
\*          the ENTER and EXIT entries the step appended to logs/trades.log
\* monitor: id, ticker, pass, the status, result and yes_ask the venue
\*          reported, out
\* reconcile: closes, the number of positions it closed
\* scan:    market, the market scanned (kept by ScanQuote only)
\* entry:   ticker, recent (was_recently_analyzed answered true), sent
\*          (place_market_order was called), order (its answer), venue_before
\*          (contracts of the ticker held before), cooling (the ticker was in
\*          cooling before), added, left (candidates behind this one that
\*          the loop did not reach because the step raised)
\* window:  prices, the samples of btc_prices
\* vol:     prices, the samples after the append; vol, estimate_vol of them
\* prob:    args and prob, the arguments and the result of range_probability
NoArgs == [btc |-> 0, floor_s |-> 0, cap_s |-> 0, vol |-> NoVol, mins |-> 0]

NoEv == [kind |-> "none", id |-> 0, ticker |-> "", pass |-> 0, mstatus |-> "",
         mresult |-> "", yes_ask |-> 0, yes_bid |-> 0, out |-> NoOutcome, closes |-> 0,
         market |-> NoMarket, recent |-> FALSE, sent |-> FALSE,
         order |-> "", venue_before |-> 0, cooling |-> FALSE, added |-> FALSE,
         left |-> 0, caught |-> 0, logged |-> 0, enters |-> 0, exits |-> 0,
         prices |-> <<>>, vol |-> NoVol,
         args |-> NoArgs, prob |-> [branch |-> "", value |-> NoProb]]

Init ==
    /\ live \in BOOLEAN
    /\ pc = "m1_begin"
    /\ cycle = 1
    /\ store = <<>>
    /\ analyzed = {}
    /\ venue = [t \in Tickers |-> 0]
    /\ balance = NoBalance
    /\ exposure = NoBalance
    /\ held = {}
    /\ mq = <<>>
    /\ cands = <<>>
    /\ trades = 0
    /\ orders = 0
    /\ passes = 0
    /\ cooling = {}
    /\ ev = NoEv
    /\ late_exits = 0

\* the phase that follows a monitor pass
AfterMonitor(p) == IF p = "m1_begin" \/ p = "m1_loop" THEN "balance" ELSE "scan"

\* monitor_positions: positions = await db.get_open_positions()
MonitorBegin ==
    /\ pc \in {"m1_begin", "m2_begin"}
    /\ mq' = OpenIds(store)
    /\ pc' = IF OpenIds(store) = <<>> THEN AfterMonitor(pc)
             ELSE IF pc = "m1_begin" THEN "m1_loop" ELSE "m2_loop"
    /\ passes' = passes + 1
    /\ ev' = NoEv
    /\ UNCHANGED <<live, cycle, store, analyzed, venue, balance, exposure,
                   held, cands, trades, orders, cooling, late_exits>>

\* failures and rejections one iteration of the monitor loop may meet
MonitorScenarios ==
    {<<"none", 0>>, <<"none", 1>>, <<"none", 2>>,
     <<"get_market", 0>>, <<"order", 0>>, <<"store", 0>>, <<"log", 0>>}

\* monitor_positions: one iteration of "for pos in positions"
MonitorStep ==
    /\ pc \in {"m1_loop", "m2_loop"}
    /\ mq # <<>>
    /\ LET i   == Head(mq)
           pos == store[i]
           tk  == pos.market_id
       IN  \E m \in MonitorMarkets(tk), sc \in MonitorScenarios :
             \E o \in {MonitorEval(pos, m, live, pc = "m2_loop", sc[1], sc[2])} :
             LET fail == sc[1]
             IN  /\ store' = IF o.closed THEN ClosePositionWithPnl(store, i, o.exit_value)
                             ELSE store
                 /\ venue' = IF o.accepted
                             THEN [venue EXCEPT ![tk] = Max(0, @ - pos.quantity)]
                             ELSE IF fail # "get_market" /\ IsSettled(m)
                                  THEN [venue EXCEPT ![tk] = 0]
                                  ELSE venue
                 /\ ev' = [NoEv EXCEPT !.kind = "monitor", !.id = i, !.ticker = tk,
                                       !.pass = IF pc = "m1_loop" THEN 1 ELSE 2,
                                       !.mstatus = IF fail = "get_market" THEN "" ELSE m.status,
                                       !.mresult = IF fail = "get_market" THEN "" ELSE m.result,
                                       !.yes_ask = IF fail = "get_market" THEN 0 ELSE m.yes_ask,
                                       !.yes_bid = IF fail = "get_market" THEN 0 ELSE m.yes_bid,
                                       !.out = o,
                                       !.caught = o.caught, !.logged = o.logged,
                                       !.exits = o.exits]
                 /\ cooling' = IF o.closed THEN cooling \cup {tk} ELSE cooling
                 /\ late_exits' = IF o.closed /\ pc = "m2_loop" THEN late_exits + 1
                                  ELSE late_exits
                 /\ mq' = MonitorRest(mq, o)
    /\ UNCHANGED <<live, pc, cycle, analyzed, balance, exposure, held, cands,
                   trades, orders, passes>>

\* monitor_positions returns
MonitorEnd ==
    /\ pc \in {"m1_loop", "m2_loop"}
    /\ mq = <<>>
    /\ pc' = AfterMonitor(pc)
    /\ ev' = NoEv
    /\ UNCHANGED <<live, cycle, store, analyzed, venue, balance, exposure, held,
                   mq, cands, trades, orders, passes, cooling, late_exits>>

\* Phase 2: balance = await kalshi.get_balance()
GetBalance ==
    /\ pc = "balance"
    /\ \E b \in Balances :
          balance' = IF b <= 0 /\ ~live THEN PAPER_BALANCE ELSE b
    /\ pc' = IF live THEN "reconcile" ELSE "exposure"
    /\ ev' = NoEv
    /\ UNCHANGED <<live, cycle, store, analyzed, venue, exposure, held, mq,
                   cands, trades, orders, passes, cooling, late_exits>>

\* Phase 2, live mode: reconcile the store against kalshi.get_positions().
\* gone: tickers whose holding the venue has settled or sold since it was bought.
ReconcileStep ==
    /\ pc = "reconcile"
    /\ \E gone \in SUBSET Tickers, failAt \in 0..Len(store) :
          LET lp == [t \in Tickers |-> IF t \in gone THEN 0 ELSE venue[t]]
          IN  /\ failAt <= ReconcileCount(store, lp)
              /\ store' = Reconcile(store, lp, failAt)
              /\ venue' = lp
              /\ pc' = IF failAt = 0 THEN "exposure" ELSE "backoff"
              /\ ev' = [NoEv EXCEPT !.kind = "reconcile",
                                    !.closes = IF failAt = 0 THEN ReconcileCount(store, lp)
                                               ELSE failAt - 1,
                                    !.caught = IF failAt = 0 THEN 0 ELSE 1,
                                    !.logged = IF failAt = 0 THEN 0 ELSE 1]
              /\ cooling' = cooling \cup
                     {store[i].market_id : i \in OpenPositions(store)
                                                \ OpenPositions(Reconcile(store, lp, failAt))}
    /\ UNCHANGED <<live, cycle, analyzed, balance, exposure, held, mq, cands,
                   trades, orders, passes, late_exits>>

\* Phase 2: held, exposure, exp_pct and the circuit breaker
ExposureCheck ==
    /\ pc = "exposure"
    /\ held' = Held(store)
    /\ exposure' = Exposure(store)
    /\ pc' = IF ExposureBreaker(balance, Exposure(store)) THEN "sleep" ELSE "btc"
    /\ ev' = [NoEv EXCEPT !.kind = "exposure"]
    /\ UNCHANGED <<live, cycle, store, analyzed, venue, balance, mq, cands,
                   trades, orders, passes, cooling, late_exits>>

\* Phase 3: the BTC spot price is fetched.  The price, the window of samples
\* and the volatility reach the rest of the cycle only through the model
\* probability, which is given with each market (Market.model); the window
\* itself is followed in MathSpec.
FetchBtc ==
    /\ pc = "btc"
    /\ pc' = "m2_begin"
    /\ ev' = NoEv
    /\ UNCHANGED <<live, cycle, store, analyzed, venue, balance, exposure,
                   held, mq, cands, trades, orders, passes, cooling, late_exits>>

\* a cycle that goes on to its second monitor pass after a failed fetch
\* (fault model for C21)
FetchBtcFailsAndGoesOn ==
    /\ pc = "btc"
    /\ pc' = "m2_begin"
    /\ ev' = [NoEv EXCEPT !.kind = "btc_failed", !.caught = 1, !.logged = 1]
    /\ UNCHANGED <<live, cycle, store, analyzed, venue, balance, exposure,
                   held, mq, cands, trades, orders, passes, cooling, late_exits>>

\* Phase 3: the BTC fetch fails: "skipping cycle", normal sleep
FetchBtcFails ==
    /\ pc = "btc"
    /\ pc' = "sleep"
    /\ ev' = [NoEv EXCEPT !.kind = "btc_failed", !.caught = 1, !.logged = 1]
    /\ UNCHANGED <<live, cycle, store, analyzed, venue, balance, exposure,
                   held, mq, cands, trades, orders, passes, cooling, late_exits>>

\* the markets the scan drops in "except Exception: continue" because their
\* close_time does not parse (src/main.py 359-363)
Unparsed(ms, heldSet) ==
    Cardinality({i \in 1..Len(ms) : ms[i].ticker \notin heldSet /\ ms[i].mins_left = NoProb})

\* Phase 4 for every answer of the venue: the ranked candidates, whether the
\* no-candidate diagnostic raises, and the number of markets dropped for
\* their close_time, per value of held
ScanOutcomes ==
    { [held   |-> h,
       cands  |-> Scan(GetBtcMarkets(raw), h),
       raises |-> Scan(GetBtcMarkets(raw), h) = <<>>
                  /\ DiagnosticRaises(GetBtcMarkets(raw)),
       unparsed |-> Unparsed(GetBtcMarkets(raw), h)] :
      h \in SUBSET Tickers, raw \in RawMarketLists }

\* Phase 4: scan and rank
ScanStep ==
    /\ pc = "scan"
    /\ \E out \in ScanOutcomes :
          /\ out.held = held
          /\ IF out.raises
             THEN cands' = <<>> /\ pc' = "backoff"
             ELSE cands' = out.cands /\ pc' = IF out.cands = <<>> THEN "sleep" ELSE "execute"
          /\ ev' = [NoEv EXCEPT !.kind = "scan",
                                !.caught = out.unparsed + (IF out.raises THEN 1 ELSE 0),
                                !.logged = IF out.raises THEN 1 ELSE 0]
    /\ trades' = 0
    /\ late_exits' = 0
    /\ UNCHANGED <<live, cycle, store, analyzed, venue, balance, exposure,
                   held, mq, orders, passes, cooling>>

\* an entry that does not test the order's result (fault model for C5)
EntryProceedsAlways(isLive, accepted) == TRUE

\* "if LIVE_MODE: result = place_market_order(...); if result is None: continue":
\* whether the candidate goes on to add_position
EntryProceeds(isLive, accepted) == isLive => accepted

\* the cap tested with ">" (fault model for C15)
CapReachedLate(n) == n > MAX_TRADES_PER_CYCLE

\* "if trades_this_cycle >= MAX_TRADES_PER_CYCLE: break"
CapReached(n) == n >= MAX_TRADES_PER_CYCLE

\* an entry loop without the cooldown test (fault model for C16)
CooldownNeverSkips(recent) == FALSE

\* "if await db.was_recently_analyzed(c["ticker"], hours=2): continue"
CooldownSkips(recent) == recent

\* Phase 5: the body of "for c in candidates" for candidate c.
\*   fail  "cooldown", "order", "add", "record": the awaited call that raises
\*         (was_recently_analyzed, place_market_order, add_position,
\*         record_market_analysis); "log": the trade log cannot be written;
\*         or "none"
\*   r     answer of the venue to the entry order ("ok" / "rejected")
Execute(c, fail, r) ==
    LET tk       == c.ticker
        recent   == CooldownSkips(WasRecentlyAnalyzed(analyzed, tk))
        called   == live /\ fail # "cooldown" /\ ~recent
        accepted == called /\ fail # "order" /\ r = "ok"
        rejected == called /\ fail # "order" /\ r = "rejected"
        proceeds == fail # "cooldown" /\ ~recent /\ EntryProceeds(live, accepted)
        added    == proceeds /\ fail # "add"
        recorded == added /\ fail # "record"
        raised   == \/ fail = "cooldown"
                    \/ (called /\ fail = "order")
                    \/ (proceeds /\ fail = "add")
                    \/ (added /\ fail = "record")
    IN  /\ store' = IF added
                    THEN AddPosition(store, MkPosition(tk, c.side, c.price_cents,
                                                       Quantity(c.price_cents), live))
                    ELSE store
        /\ venue' = IF accepted
                    THEN [venue EXCEPT ![tk] = @ + OrderCount(c.price_cents)]
                    ELSE venue
        /\ held' = IF added THEN held \cup {tk} ELSE held
        /\ trades' = IF added THEN trades + 1 ELSE trades
        /\ orders' = IF called THEN orders + 1 ELSE orders
        /\ analyzed' = IF recorded THEN RecordMarketAnalysis(analyzed, tk)
                       ELSE analyzed
        /\ cands' = IF raised THEN <<>> ELSE Tail(cands)
        /\ pc' = IF raised THEN "backoff"
                 ELSE IF Tail(cands) = <<>> THEN "sleep" ELSE "execute"
        /\ cooling' = IF rejected THEN cooling \cup {tk} ELSE cooling
        /\ ev' = [NoEv EXCEPT !.kind = "entry", !.ticker = tk,
                              !.recent = (fail # "cooldown" /\ recent),
                              !.sent = called,
                              !.order = IF accepted THEN "ok"
                                         ELSE IF called /\ fail = "order" THEN "raised"
                                         ELSE IF called THEN "rejected" ELSE "",
                              !.venue_before = venue[tk],
                              !.cooling = (tk \in cooling),
                              !.added = added,
                              !.left = IF raised THEN Len(Tail(cands)) ELSE 0,
                              !.enters = IF added /\ fail # "log" THEN 1 ELSE 0,
                              !.caught = (IF added /\ fail = "log" THEN 1 ELSE 0)
                                         + (IF raised THEN 1 ELSE 0),
                              !.logged = IF raised THEN 1 ELSE 0]

\* Phase 5: one iteration of "for c in candidates"
ExecuteStep ==
    /\ pc = "execute"
    /\ cands # <<>>
    /\ IF CapReached(trades)
       THEN /\ cands' = <<>>
            /\ pc' = "sleep"
            /\ ev' = [NoEv EXCEPT !.kind = "cap"]
            /\ UNCHANGED <<store, venue, held, trades, orders, analyzed, cooling>>
       ELSE \E fail \in {"none", "cooldown", "order", "add", "record", "log"},
               r \in {"ok", "rejected"} : Execute(Head(cands), fail, r)
    /\ UNCHANGED <<live, cycle, balance, exposure, mq, passes, late_exits>>

\* Phase 5 while the store has room for the positions explored
ExecuteBounded == Len(store) < MaxStore /\ ExecuteStep

\* The first awaited call of a phase raises (db.get_open_positions,
\* kalshi.get_balance, kalshi.get_positions, kalshi.get_btc_markets): the
\* exception reaches "except Exception" of the cycle.
CycleError ==
    /\ pc \in {"m1_begin", "m2_begin", "balance", "reconcile", "exposure", "scan"}
    /\ pc' = "backoff"
    /\ ev' = [NoEv EXCEPT !.kind = IF pc = "scan" THEN "list_failed" ELSE "cycle_error",
                          !.caught = 1, !.logged = 1]
    /\ UNCHANGED <<live, cycle, store, analyzed, venue, balance, exposure,
                   held, mq, cands, trades, orders, passes, cooling, late_exits>>

\* The loop sleeps and the next explored cycle starts.  Cycles in which every
\* position only reaches the status display and the scan finds no candidate
\* change nothing below and are not counted, so by the next explored cycle the
\* recorded analyses, exits and rejections either are still inside the
\* two-hour window or have all left it.
NextCycle ==
    /\ cycle < MaxCycles
    /\ \/ analyzed' = analyzed /\ cooling' = cooling
       \/ analyzed' = {} /\ cooling' = {}
    /\ cycle' = cycle + 1
    /\ pc' = "m1_begin"
    /\ balance' = NoBalance
    /\ exposure' = NoBalance
    /\ held' = {}
    /\ mq' = <<>>
    /\ cands' = <<>>
    /\ trades' = 0
    /\ orders' = 0
    /\ passes' = 0
    /\ ev' = NoEv
    /\ late_exits' = 0
    /\ UNCHANGED <<live, store, venue>>

\* await asyncio.sleep(SCAN_INTERVAL_MINS * 60)
Sleep == pc = "sleep" /\ NextCycle

\* a handler of the cycle that raises again, which ends run_bot (fault model
\* for C24)
BackoffRaises ==
    /\ pc = "backoff"
    /\ pc' = "exit"
    /\ UNCHANGED <<live, cycle, store, analyzed, venue, balance, exposure, held,
                   mq, cands, trades, orders, passes, cooling, ev, late_exits>>

\* except Exception: await asyncio.sleep(60)
Backoff == pc = "backoff" /\ NextCycle

Next ==
    \/ MonitorBegin
    \/ MonitorStep
    \/ MonitorEnd
    \/ GetBalance
    \/ ReconcileStep
    \/ ExposureCheck
    \/ FetchBtc
    \/ FetchBtcFails
    \/ ScanStep
    \/ ExecuteBounded
    \/ CycleError
    \/ Sleep
    \/ Backoff

Spec == Init /\ [][Next]_vars

\* ------------------------------------------- the scan on a grid of quotes
\* Quotes and model probabilities one listed market may carry, boundary
\* values included.
YesAsks == {0, 1, 40, 50, 99, 100}
YesBids == {0, 38, 47, 100}
NoAsks  == {0, 20, 53, 100}
Probs   == {0, 32, 48, 58, 60, 100}

QuoteGrid ==
    { Market("KXBTC-A", "active", "", ya, yb, na, 0, 600, TRUE, p) :
        ya \in YesAsks, yb \in YesBids, na \in NoAsks, p \in Probs }

\* minutes to the close of a listed market: a close_time that does not
\* parse, and times around both ends of the window
CloseTimes == {NoProb, 0, TIME_MIN_MINS - 1, TIME_MIN_MINS, 600,
               TIME_MAX_MINS, TIME_MAX_MINS + 1}

\* markets with a YES edge of 0.20 or a NO edge of 0.47, at each close time
CloseTimeGrid ==
    { Market("KXBTC-A", "active", "", 40, 38, 62, 60, t, TRUE, 60) : t \in CloseTimes }
    \cup { Market("KXBTC-A", "active", "", 70, 67, 0, 0, t, TRUE, 20) : t \in CloseTimes }

\* a first cycle that has reached Phase 4 with nothing held
ScanInit ==
    /\ live \in BOOLEAN
    /\ pc = "scan"
    /\ cycle = 1
    /\ store = <<>>
    /\ analyzed = {}
    /\ venue = [t \in Tickers |-> 0]
    /\ balance \in {b \in Balances : b > 0}
    /\ exposure = 0
    /\ held = {}
    /\ mq = <<>>
    /\ cands = <<>>
    /\ trades = 0
    /\ orders = 0
    /\ passes = 2
    /\ cooling = {}
    /\ ev = NoEv
    /\ late_exits = 0

\* Phase 4 when the venue lists one market of the grid; ev keeps the market
ScanQuote ==
    /\ pc = "scan"
    /\ \E m \in QuoteGrid \cup CloseTimeGrid :
          LET ms == GetBtcMarkets(<<m>>)
              cs == Scan(ms, held)
          IN  /\ IF cs = <<>> /\ DiagnosticRaises(ms)
                 THEN cands' = <<>> /\ pc' = "backoff"
                 ELSE cands' = cs /\ pc' = IF cs = <<>> THEN "sleep" ELSE "execute"
              /\ ev' = [NoEv EXCEPT !.kind = "scan", !.market = m]
    /\ trades' = 0
    /\ late_exits' = 0
    /\ UNCHANGED <<live, cycle, store, analyzed, venue, balance, exposure,
                   held, mq, orders, passes, cooling>>

ScanNext == ScanQuote \/ ExecuteStep

ScanSpec == ScanInit /\ [][ScanNext]_vars

\* ------------------------------------- the entry phase on longer listings
\* Six markets with an edge: YES 0.20, NO 0.47, YES 0.10, YES 0.20, YES 0.15,
\* NO 0.30.
EntryMarkets ==
    << Market("KXBTC-A", "active", "", 40, 38, 62, 60, 600, TRUE, 60),
       Market("KXBTC-B", "active", "", 70, 67, 0, 0, 1080, TRUE, 20),
       Market("KXBTC-C", "active", "", 50, 47, 53, 50, 600, TRUE, 60),
       Market("KXBTC-D", "active", "", 30, 28, 72, 70, 600, TRUE, 50),
       Market("KXBTC-E", "active", "", 60, 58, 42, 40, 600, TRUE, 75),
       Market("KXBTC-F", "active", "", 45, 43, 57, 55, 600, TRUE, 13) >>

EntryPool == 1..Min(MaxCands, Len(EntryMarkets))

EntryTickers == {EntryMarkets[k].ticker : k \in EntryPool}

\* the orders in which the venue may list up to n of the markets, each once
RECURSIVE ListingsUpTo(_)
ListingsUpTo(n) ==
    IF n = 0 THEN {<<>>}
    ELSE LET shorter == ListingsUpTo(n - 1)
             longest == {l \in shorter : Len(l) = n - 1}
             unlisted(l) == {k \in EntryPool : \A i \in 1..Len(l) : l[i] # k}
         IN  shorter \cup UNION { {Append(l, k) : k \in unlisted(l)} : l \in longest }

\* a first cycle that has ranked the candidates of a listing, with nothing
\* held and at most one of the tickers inside the cooldown window
EntryInit ==
    /\ live \in BOOLEAN
    /\ pc = "execute"
    /\ cycle = 1
    /\ store = <<>>
    /\ analyzed \in {{}} \cup {{t} : t \in EntryTickers}
    /\ venue = [t \in EntryTickers |-> 0]
    /\ balance = PAPER_BALANCE
    /\ exposure = 0
    /\ held = {}
    /\ mq = <<>>
    /\ \E l \in ListingsUpTo(Cardinality(EntryPool)) :
          /\ l # <<>>
          /\ cands = Scan(GetBtcMarkets([j \in 1..Len(l) |-> EntryMarkets[l[j]]]), {})
    /\ trades = 0
    /\ orders = 0
    /\ passes = 2
    /\ cooling = {}
    /\ ev = NoEv
    /\ late_exits = 0

EntryNext == ExecuteStep

EntrySpec == EntryInit /\ [][EntryNext]_vars

\* ------------------------------------------- one monitor pass on its own
MaxOpen == 2        \* open positions at the start of the pass

MonitorTickers == {"KXBTC-A", "KXBTC-B", "KXBTC-C"}

\* the positions an entry phase may have stored: YES at 40 and at 85 cents,
\* NO at the fallback price of 62 cents
HeldPositions(isLive) ==
    { MkPosition("KXBTC-A", "YES", 40, Quantity(40), isLive),
      MkPosition("KXBTC-B", "NO", 62, Quantity(62), isLive),
      MkPosition("KXBTC-C", "YES", 85, Quantity(85), isLive) }

\* stores of open positions, one per ticker at most
StoresOf(isLive) ==
    { st \in SeqsUpTo(HeldPositions(isLive), MaxOpen) :
        /\ st # <<>>
        /\ \A i, j \in 1..Len(st) : st[i].market_id = st[j].market_id => i = j }

\* a cycle about to run its first or its second monitor pass over a store of
\* open positions, which the venue holds in live mode
MonitorInit ==
    /\ live \in BOOLEAN
    /\ pc \in {"m1_begin", "m2_begin"}
    /\ cycle = 1
    /\ store \in StoresOf(live)
    /\ analyzed = {}
    /\ venue = [t \in MonitorTickers |->
                  LET ids == {i \in 1..Len(store) : store[i].market_id = t}
                  IN  IF live /\ ids # {}
                      THEN store[CHOOSE i \in ids : TRUE].quantity
                      ELSE 0]
    /\ balance = NoBalance
    /\ exposure = NoBalance
    /\ held = {}
    /\ mq = <<>>
    /\ cands = <<>>
    /\ trades = 0
    /\ orders = 0
    /\ passes = IF pc = "m1_begin" THEN 0 ELSE 1
    /\ cooling = {}
    /\ ev = NoEv
    /\ late_exits = 0

MonitorNext == MonitorBegin \/ MonitorStep \/ MonitorEnd

MonitorSpec == MonitorInit /\ [][MonitorNext]_vars

\* ------------------------------ the estimator and the probability model
MaxSamples == 5     \* samples in the window after the append

\* price samples: one that is not positive, and three levels 1e-4 and 6e-4 apart
Samples == {0, 115000, 115001, 115006}

\* strike bounds [floor_s, cap_s] around the levels, and times to close
Strikes == {<<114990, 115001>>, <<115001, 115006>>, <<115003, 115020>>}
MinsLeft == {0 - 5, 0, 1, 7}

\* a cycle at Phase 3 with nothing held; ev holds the window of samples
MathInit ==
    /\ live = FALSE
    /\ pc = "btc"
    /\ cycle = 1
    /\ store = <<>>
    /\ analyzed = {}
    /\ venue = [t \in Tickers |-> 0]
    /\ balance = PAPER_BALANCE
    /\ exposure = 0
    /\ held = {}
    /\ mq = <<>>
    /\ cands = <<>>
    /\ trades = 0
    /\ orders = 0
    /\ passes = 1
    /\ cooling = {}
    /\ ev \in {[NoEv EXCEPT !.kind = "window", !.prices = w] :
                w \in SeqsUpTo(Samples, MaxSamples - 1)}
    /\ late_exits = 0

\* "btc_prices.append(btc); vol_pm = estimate_vol(list(btc_prices))"
EstimateStep ==
    /\ pc = "btc"
    /\ \E btc \in Samples :
          ev' = [NoEv EXCEPT !.kind = "vol",
                            !.prices = AppendSample(ev.prices, btc),
                            !.vol = EstimateVol(AppendSample(ev.prices, btc))]
    /\ pc' = "scan"
    /\ passes' = 2
    /\ UNCHANGED <<live, cycle, store, analyzed, venue, balance, exposure,
                   held, mq, cands, trades, orders, cooling, late_exits>>

\* range_probability(btc, floor_s, cap_s, vol_pm, mins) for a listed market,
\* as the no-candidate diagnostic calls it, whatever the time left
RangeProbabilityStep ==
    /\ pc = "scan"
    /\ ev.kind = "vol"
    /\ \E k \in Strikes, mins \in MinsLeft :
          LET btc == ev.prices[Len(ev.prices)]
              a   == [btc |-> btc, floor_s |-> k[1], cap_s |-> k[2],
                      vol |-> ev.vol, mins |-> mins]
          IN  ev' = [NoEv EXCEPT !.kind = "prob", !.args = a,
                                !.prob = RangeProbability(btc, k[1], k[2], ev.vol, mins)]
    /\ pc' = "sleep"
    /\ UNCHANGED <<live, cycle, store, analyzed, venue, balance, exposure,
                   held, mq, cands, trades, orders, passes, cooling, late_exits>>

MathNext == EstimateStep \/ RangeProbabilityStep

MathSpec == MathInit /\ [][MathNext]_vars

TypeOK ==
    /\ live \in BOOLEAN
    /\ pc \in {"m1_begin", "m1_loop", "balance", "reconcile", "exposure", "btc",
               "m2_begin", "m2_loop", "scan", "execute", "sleep", "backoff"}
    /\ cycle \in 1..MaxCycles
    /\ Len(store) <= MaxStore
    /\ \A i \in 1..Len(store) : store[i].status \in {"open", "closed"}
    /\ trades \in 0..MAX_TRADES_PER_CYCLE
    /\ passes \in 0..2
    /\ cooling \subseteq Tickers

\* ------------------------------------------------------------ properties

\* C1: in every reachable state the store holds at most one open position per
\* market_id: an entry never adds a position for a ticker that is open already,
\* neither across cycles nor twice in one cycle.
C1_OneOpenPerMarket ==
    \A i, j \in OpenPositions(store) :
        store[i].market_id = store[j].market_id => i = j

\* C1 case: a ticker is entered again after its earlier position was closed
C1_Witness ==
    \E i, j \in 1..Len(store) :
        /\ i < j
        /\ store[i].market_id = store[j].market_id
        /\ store[i].status = "closed"
        /\ store[j].status = "open"

\* C2: in live mode no entry order is sent for a contract while the venue
\* still holds the contracts of an earlier accepted entry order for it,
\* whatever store call failed after that order was accepted.
C2_NoSecondEntryWhileHeld ==
    (live /\ ev.kind = "entry" /\ ev.sent) => ev.venue_before = 0

\* C3: a cycle that began its entry phase with the exposure fraction below
\* MAX_EXPOSURE_PCT ends with the fraction, taken over the positions then open
\* and the balance of the cycle, still below MAX_EXPOSURE_PCT.
C3_EntriesKeepFractionBelowCap ==
    ( /\ pc = "sleep"
      /\ exposure # NoBalance
      /\ balance + exposure > 0
      /\ 100 * exposure < MAX_EXPOSURE_PCT * (balance + exposure) )
    => 100 * Exposure(store) < MAX_EXPOSURE_PCT * (balance + Exposure(store))

\* C4: once exposure is computed, the cycle goes straight to its sleep, with
\* no entry order sent and no position opened, exactly when
\* exposure / (balance + exposure) >= MAX_EXPOSURE_PCT (equality included);
\* below the cap it goes on to the entry phase.
C4_BreakerSkipsEntries ==
    /\ (ev.kind = "exposure" /\ balance + exposure > 0)
       => (pc = "sleep" <=> 100 * exposure >= MAX_EXPOSURE_PCT * (balance + exposure))
    /\ (ev.kind = "exposure" /\ pc # "sleep") => pc = "btc"
    /\ ( /\ exposure # NoBalance
         /\ balance + exposure > 0
         /\ 100 * exposure >= MAX_EXPOSURE_PCT * (balance + exposure) )
       => (pc = "sleep" /\ trades = 0 /\ orders = 0 /\ cands = <<>>
           /\ exposure = Exposure(store))

\* C4 case: the fraction equals the cap (1.98 / (0.02 + 1.98) = 0.99)
C4_Witness ==
    /\ ev.kind = "exposure"
    /\ balance = 2
    /\ exposure = 198
    /\ pc = "sleep"

\* C5: an execute step in live mode adds a position only when
\* place_market_order answered with a result, and leaves the store unchanged
\* when the order was rejected; in paper mode it sends no order and adds the
\* position of every candidate that is out of cooldown.
C5_EntryNeedsAcceptedOrder ==
    [][ (pc = "execute" /\ ev'.kind = "entry") =>
          LET c == Head(cands)
          IN  /\ live => /\ store' # store => (ev'.sent /\ ev'.order = "ok")
                         /\ ev'.order = "rejected" => (store' = store /\ ~ev'.added)
              /\ ~live => /\ ~ev'.sent /\ orders' = orders /\ venue' = venue
                          /\ (~WasRecentlyAnalyzed(analyzed, c.ticker) /\ pc' # "backoff")
                             => /\ Len(store') = Len(store) + 1
                                /\ store'[Len(store')].market_id = c.ticker
                                /\ store'[Len(store')].status = "open"
              /\ store' # store
                 => /\ SubSeq(store', 1, Len(store)) = store
                    /\ Len(store') = Len(store) + 1
                    /\ store'[Len(store')].market_id = c.ticker
                    /\ store'[Len(store')].live = live
      ]_vars

\* C5 case: a live entry order was rejected
C5_Witness ==
    /\ live
    /\ ev.kind = "entry"
    /\ ev.sent
    /\ ev.order = "rejected"
    /\ ~ev.added

\* C6: in live mode a monitor iteration closes a position for take-profit or
\* stop-loss only after kalshi.close_position answered with a result in that
\* iteration; with the order rejected or not sent the store is unchanged.
C6_LiveCloseNeedsAcceptedOrder ==
    [][ (live /\ ev'.kind = "monitor") =>
          /\ store' # store
             => /\ ev'.out.rule \in {"settle", "tp", "sl"}
                /\ store'[ev'.id].status = "closed"
                /\ \A k \in 1..Len(store) : k # ev'.id => store'[k] = store[k]
          /\ ev'.out.rule \in {"tp", "sl"}
             => (ev'.out.accepted /\ ev'.out.sends >= 1 /\ store[ev'.id].status = "open")
          /\ (~ev'.out.accepted /\ ev'.out.rule # "settle") => store' = store
      ]_vars

\* C6 case: a stop was due in live mode and the closing order was rejected
C6_Witness ==
    /\ live
    /\ ev.kind = "monitor"
    /\ ev.out.should_stop
    /\ ev.out.sends >= 1
    /\ ~ev.out.accepted
    /\ store[ev.id].status = "open"

\* C7: the reconciliation of a live cycle, which runs before exposure is
\* computed and before the scan, closes at its entry price, with zero P&L,
\* every open position the venue holds no contracts of, and changes no other
\* position; reconciling its result again changes nothing.
C7_ReconcileClosesAtEntry ==
    [][ (pc = "reconcile" /\ pc' = "exposure") =>
          /\ live
          /\ exposure' = NoBalance /\ cands' = <<>>
          /\ Len(store') = Len(store)
          /\ \A i \in 1..Len(store) :
                IF store[i].status = "open" /\ venue'[store[i].market_id] = 0
                THEN store'[i] = [store[i] EXCEPT !.status = "closed",
                                                  !.exit_price = store[i].entry_price,
                                                  !.pnl = 0]
                ELSE store'[i] = store[i]
          /\ ReconcileCount(store', venue') = 0
          /\ Reconcile(store', venue', 0) = store'
      ]_vars

\* C7 case: a reconciliation that closed a position has completed
C7_Witness ==
    /\ ev.kind = "reconcile"
    /\ ev.closes >= 1
    /\ pc = "exposure"

\* C8: a position whose market is reported settled, closed or finalized with
\* a result is closed with exit value 1.0 when the held side matches the
\* result, 0.0 when it does not, and its entry price when the result is
\* neither yes nor no; the P&L is (exit_value - entry_price) * quantity.
C8_SettlementExit ==
    ( /\ ev.kind = "monitor"
      /\ ev.mstatus \in {"settled", "closed", "finalized"}
      /\ ev.mresult # "" )
    => LET p == store[ev.id]
           x == IF ev.mresult \in {"yes", "YES"}
                THEN (IF p.side = "YES" THEN 100 ELSE 0)
                ELSE IF ev.mresult \in {"no", "NO"}
                     THEN (IF p.side = "NO" THEN 100 ELSE 0)
                     ELSE p.entry_price
       IN  \/ ev.out.rule = "error" /\ ~ev.out.closed /\ p.status = "open"
           \/ /\ ev.out.rule = "settle"
              /\ ev.out.closed
              /\ ev.out.exit_value = x
              /\ ev.out.pnl = (x - p.entry_price) * p.quantity
              /\ p.status = "closed"
              /\ p.exit_price = x
              /\ p.pnl = (x - p.entry_price) * p.quantity

\* C8 case: a NO position settled against a "yes" result (exit value 0.0)
C8_Witness ==
    /\ ev.kind = "monitor"
    /\ ev.out.rule = "settle"
    /\ ev.mresult = "yes"
    /\ store[ev.id].side = "NO"
    /\ store[ev.id].exit_price = 0

\* C9: for a YES position entered at 0.40 the fixed stop-loss condition is
\* found true exactly when the current value is at most 0.26.
C9_StopLossAt35Percent ==
    ( /\ ev.kind = "monitor"
      /\ ev.out.curr_val # NoExit
      /\ store[ev.id].side = "YES"
      /\ store[ev.id].entry_price = 40 )
    => (ev.out.hard_stop <=> ev.out.curr_val <= 26)

\* C10: a position whose current value is at or above its entry price is not
\* stopped out in a monitor pass, whatever the model probability is.
C10_NoStopWhileFlatOrAhead ==
    ( /\ ev.kind = "monitor"
      /\ ev.out.curr_val # NoExit
      /\ ev.out.curr_val >= store[ev.id].entry_price )
    => (~ev.out.should_stop /\ ev.out.rule # "sl" /\ ~ev.out.closed)

\* C10 case: the model has turned against a position that is ahead
C10_Witness ==
    /\ ev.kind = "monitor"
    /\ ev.out.edge_flipped
    /\ ev.out.curr_val > store[ev.id].entry_price
    /\ ev.out.rule = "none"
    /\ store[ev.id].status = "open"

\* C11: a held NO position is valued at 1 - yes_ask/100 whenever the venue
\* quotes a YES ask, so at 0.80 with the YES ask at 20.
C11_ComplementValuation ==
    ( /\ ev.kind = "monitor"
      /\ ev.out.curr_val # NoExit
      /\ store[ev.id].side = "NO"
      /\ ev.yes_ask > 0 )
    => ev.out.curr_val = 100 - ev.yes_ask

\* C11 case: NO held, YES ask quoted at 20, current value 0.80
C11_Witness ==
    /\ ev.kind = "monitor"
    /\ store[ev.id].side = "NO"
    /\ ev.yes_ask = 20
    /\ ev.out.curr_val = 80

\* C12: the edge of a candidate is taken against the ask of its side:
\* model_prob - yes_ask/100 for YES, (1 - model_prob) - no_ask/100 for NO with
\* no_ask = 100 - yes_bid when the venue's NO ask is not strictly between 0
\* and 100; the candidate's price is that ask.
C12_EdgeAgainstAsk ==
    (ev.kind = "scan" /\ cands # <<>>)
    => LET m  == ev.market
           c  == cands[1]
           na == IF 0 < m.no_ask /\ m.no_ask < 100 THEN m.no_ask ELSE 100 - m.yes_bid
       IN  /\ Len(cands) = 1
           /\ c.ticker = m.ticker
           /\ c.side \in {"YES", "NO"}
           /\ c.side = "YES" => (c.edge = m.model - m.yes_ask /\ c.price_cents = m.yes_ask)
           /\ c.side = "NO"  => (c.edge = (100 - m.model) - na /\ c.price_cents = na)
           /\ c.edge >= MIN_EDGE

\* C12 case: bid 47, ask 50, model 0.60: a YES candidate with edge 0.10
C12_Witness ==
    /\ ev.kind = "scan"
    /\ ev.market.yes_bid = 47
    /\ ev.market.yes_ask = 50
    /\ ev.market.model = 60
    /\ cands # <<>>
    /\ cands[1].side = "YES"
    /\ cands[1].edge = 10

\* C13: the side of a candidate is the side with the larger edge.
C13_LargerEdgeSideChosen ==
    (ev.kind = "scan" /\ cands # <<>>)
    => LET m  == ev.market
           na == IF 0 < m.no_ask /\ m.no_ask < 100 THEN m.no_ask ELSE 100 - m.yes_bid
           ey == m.model - m.yes_ask
           en == (100 - m.model) - na
       IN  /\ cands[1].side = "YES" => ey >= en
           /\ cands[1].side = "NO"  => en >= ey

\* C18: every candidate has a price strictly between 0 and 100 cents, and
\* every position created has quantity >= 1 and 0 < entry_price < 1.
C18_PositionWellFormed ==
    /\ \A k \in 1..Len(cands) : 0 < cands[k].price_cents /\ cands[k].price_cents < 100
    /\ \A i \in 1..Len(store) :
          /\ store[i].quantity >= 1
          /\ 0 < store[i].entry_price /\ store[i].entry_price < 100

\* C18 case: a NO position bought at the fallback price 100 - yes_bid = 62
\* cents, three contracts for the 2.00 budget
C18_Witness ==
    /\ Len(store) = 1
    /\ store[1].entry_price = 62
    /\ store[1].quantity = 3

\* C14: the candidates are in non-increasing order of absolute edge, the
\* entry loop takes them from the front, and the candidate it opens has an
\* absolute edge at least that of every candidate still waiting.
C14_EntriesByAbsEdge ==
    [][ pc = "execute" =>
          /\ \A k \in 1..(Len(cands) - 1) : cands[k].abs_edge >= cands[k + 1].abs_edge
          /\ cands' \in {Tail(cands), <<>>}
          /\ ev'.kind = "entry" => ev'.ticker = Head(cands).ticker
          /\ store' # store
             => /\ store'[Len(store')].market_id = Head(cands).ticker
                /\ \A k \in 1..Len(cands) : cands[k].abs_edge <= Head(cands).abs_edge
      ]_vars

\* C14 case: a position is opened with candidates of smaller edge waiting and
\* a candidate of larger edge passed over by the cooldown
C14_Witness ==
    /\ ev.kind = "entry"
    /\ ev.added
    /\ Len(cands) >= 2
    /\ Len(store) = 1
    /\ analyzed # {store[1].market_id}
    /\ store[1].market_id # "KXBTC-B"
    /\ "KXBTC-B" \in analyzed

\* C15: a cycle opens at most MAX_TRADES_PER_CYCLE positions; trades_this_cycle
\* counts the positions opened and nothing else, and the loop stops at the cap.
C15_TradeCap ==
    /\ trades <= MAX_TRADES_PER_CYCLE
    /\ Len(store) = trades
    /\ Len(store) <= MAX_TRADES_PER_CYCLE
    /\ ev.kind = "cap" => (trades = MAX_TRADES_PER_CYCLE /\ pc = "sleep")

\* C15 case: the loop broke at the cap after a rejected order, which did not
\* count
C15_Witness ==
    /\ ev.kind = "cap"
    /\ Len(store) = MAX_TRADES_PER_CYCLE
    /\ orders > MAX_TRADES_PER_CYCLE

\* C16: for a candidate whose ticker was recently analyzed the entry loop
\* sends no order and opens no position.
C16_CooldownSkips ==
    [][ ( /\ pc = "execute"
          /\ ev'.kind = "entry"
          /\ WasRecentlyAnalyzed(analyzed, Head(cands).ticker) )
        => /\ ~ev'.sent
           /\ ~ev'.added
           /\ store' = store
           /\ venue' = venue
           /\ orders' = orders
           /\ trades' = trades
      ]_vars

\* C16 case: a candidate in cooldown was skipped and the loop went on
C16_Witness ==
    /\ ev.kind = "entry"
    /\ ev.recent
    /\ ~ev.sent
    /\ ~ev.added
    /\ pc = "execute"

\* C17: no entry order is sent and no position is opened for a ticker whose
\* position was closed, or whose entry order was rejected, within the last
\* two hours.
C17_NoEntryAfterExitOrRejection ==
    (ev.kind = "entry" /\ (ev.sent \/ ev.added)) => ~ev.cooling

\* C19: a step never removes a position, never changes a closed one, and
\* changes an open one only by closing it.
C19_OpenToClosedOnly ==
    [][ /\ Len(store') >= Len(store)
        /\ \A i \in 1..Len(store) :
              /\ store[i].status = "closed" => store'[i] = store[i]
              /\ store'[i] # store[i]
                 => /\ store[i].status = "open"
                    /\ store'[i].status = "closed"
                    /\ store'[i] = [store[i] EXCEPT !.status = "closed",
                                                    !.exit_price = store'[i].exit_price,
                                                    !.pnl = store'[i].pnl]
      ]_vars

\* C19 case: a reconciliation has run over a store that holds a position
\* closed earlier at another price than its entry price, gone from the venue
C19_Witness ==
    /\ ev.kind = "reconcile"
    /\ pc = "exposure"
    /\ \E i \in 1..Len(store) :
          /\ store[i].status = "closed"
          /\ store[i].exit_price # store[i].entry_price
          /\ venue[store[i].market_id] = 0

\* C20: a cycle that holds positions and ends in its normal sleep, the BTC
\* fetch not having failed, has run the monitor twice.
C20_TwoMonitorPasses ==
    (pc = "sleep" /\ ev.kind # "btc_failed" /\ OpenPositions(store) # {})
    => passes = 2

\* C21 as stated: after a failed fetch of the BTC price or of the market list
\* the cycle has opened no position and sent no entry order, only the first
\* monitor pass has closed positions, and the loop is about to sleep.
C21_OnlyFirstPassExits ==
    ev.kind \in {"btc_failed", "list_failed"}
    => /\ trades = 0
       /\ orders = 0
       /\ late_exits = 0
       /\ pc \in {"sleep", "backoff"}

\* C21: after a failed fetch the cycle has opened no position and sent no
\* entry order, and the loop is about to sleep; a failed BTC fetch comes after
\* the first monitor pass only, a failed fetch of the market list after both
\* passes, whose exits have been applied.
C21_FetchFailureSkipsEntries ==
    /\ ev.kind = "btc_failed"
       => /\ trades = 0
          /\ orders = 0
          /\ passes = 1
          /\ late_exits = 0
          /\ pc = "sleep"
    /\ ev.kind = "list_failed"
       => /\ trades = 0
          /\ orders = 0
          /\ passes = 2
          /\ pc = "backoff"

\* C21 case: the market list cannot be fetched in a cycle whose second
\* monitor pass has closed a position
C21_Witness ==
    /\ ev.kind = "list_failed"
    /\ late_exits > 0
    /\ pc = "backoff"

\* C27: estimate_vol of a window of fewer than 5 samples is the default
\* volatility whatever the samples are, and estimate_vol of a window of 5 or
\* more positive samples is the realized volatility of its log returns, or
\* the floor when the realized volatility is below the floor.
C27_DefaultBelowFiveSamples ==
    ev.kind = "vol"
    => LET p == ev.prices
           n == Len(p)
           r == [i \in 1..(n - 1) |-> p[i + 1] - p[i]]
           k == Len(r)
           realized == [num |-> k * SumOfSquares(r) - SumOf(r) * SumOf(r),
                        den |-> 2 * k * (k - 1)]
       IN  /\ n < 5 => ev.vol = VolDefault
           /\ (n >= 5 /\ \A i \in 1..n : p[i] > 0)
              => ev.vol = IF realized.num * MINS_PER_YEAR
                              >= MIN_ANN_VOL * MIN_ANN_VOL * 10000 * realized.den
                           THEN realized
                           ELSE VolFloor

\* C27 case: five positive samples whose realized volatility is above the
\* floor, so that the estimate is neither the default nor the floor
C27_Witness ==
    /\ ev.kind = "vol"
    /\ Len(ev.prices) = 5
    /\ \A i \in 1..5 : ev.prices[i] > 0
    /\ ev.vol # VolDefault
    /\ ev.vol # VolFloor

\* C28: with no time left (mins <= 0) range_probability returns 1.0 for a
\* price strictly between the strikes and 0.0 for a price below the floor or
\* above the cap, from the first test and not from the general formula.
C28_DegenerateProbability ==
    (ev.kind = "prob" /\ ev.args.mins <= 0)
    => LET a == ev.args
       IN  /\ ev.prob.branch = "no_time"
           /\ (a.floor_s < a.btc /\ a.btc < a.cap_s) => ev.prob.value = 100
           /\ (a.btc < a.floor_s \/ a.btc > a.cap_s) => ev.prob.value = 0

\* C28 case: a market past its close with the price strictly between its
\* strikes, given probability 1.0
C28_Witness ==
    /\ ev.kind = "prob"
    /\ ev.args.mins < 0
    /\ ev.args.floor_s < ev.args.btc
    /\ ev.args.btc < ev.args.cap_s
    /\ ev.prob.value = 100

\* C22: while a monitor pass runs, the positions still to be handled are
\* exactly the open positions after the one handled last, whatever happened
\* to that one; when handling it raised, the exception was caught and
\* reported with a printed line and the position is still open.
C22_MonitorErrorIsolated ==
    ev.kind = "monitor"
    => /\ pc \in {"m1_loop", "m2_loop"}
       /\ mq = SelectSeq(OpenIds(store), LAMBDA i : i > ev.id)
       /\ ev.out.rule = "error"
          => /\ ev.logged = 1
             /\ ~ev.out.closed
             /\ store[ev.id].status = "open"

\* C22 case: handling a position raised and another open position is still
\* to be handled in the same pass
C22_Witness ==
    /\ ev.kind = "monitor"
    /\ ev.out.rule = "error"
    /\ mq # <<>>
    /\ store[Head(mq)].status = "open"

\* C23: when the cooldown lookup, the order placement or a store write raises
\* for one candidate, no candidate after it is left unprocessed: the entry
\* loop goes on with the next candidate of the cycle.
C23_CandidateErrorIsolated ==
    ev.kind = "entry" => ev.left = 0

\* ------------------------------------------------- the self-healing loop
\* The entry phase over the listings of EntrySpec, followed by the sleep or
\* the backoff of the cycle and by the first call of the cycles after it,
\* which may raise in turn.
LiveNext == ExecuteStep \/ CycleError \/ Sleep \/ Backoff

\* "await asyncio.sleep(...)" returns and "while True" starts the next cycle
LiveSpec == EntryInit /\ [][LiveNext]_vars /\ WF_vars(Backoff) /\ WF_vars(Sleep)

\* C24: whenever the cycle has failed, the failure was caught by the handler
\* of the cycle and reported with a printed line, the loop is in its backoff
\* sleep, and the next cycle starts eventually (as long as the model has a
\* next cycle to explore).
C24_SelfHealing ==
    /\ [](pc = "backoff" => ev.caught >= 1 /\ ev.logged = 1)
    /\ [](ev.kind = "cycle_error" => pc = "backoff")
    /\ \A c \in 1..(MaxCycles - 1) :
          (pc = "backoff" /\ cycle = c) ~> (pc = "m1_begin" /\ cycle = c + 1)

\* C24 case: the cycle failed after a position was opened, and the loop is in
\* its backoff sleep
C24_Witness ==
    /\ pc = "backoff"
    /\ ev.kind = "entry"
    /\ ev.added
    /\ cycle < MaxCycles

\* C25: every exception caught while a position, the market list or a
\* candidate is handled is reported with a printed line: a step reports as
\* many exceptions as it catches.
C25_EveryCaughtErrorLogged == ev.logged = ev.caught

C29_TradeLogComplete ==
    /\ ev.kind = "entry" => ev.enters = (IF ev.added THEN 1 ELSE 0)
    /\ ev.kind = "monitor" => ev.exits = (IF ev.out.closed THEN 1 ELSE 0)
    /\ ev.kind = "reconcile" => ev.exits = ev.closes

\* C30: in a monitor pass a position is handled by one exit rule at most, the
\* first that matches in the order settlement, take-profit, stop-loss: at most
\* one closing order is sent for it, a position that matched the take-profit
\* rule is not closed by the stop-loss rule, and a position whose market is
\* settled with a result is closed at its settlement value, whatever the
\* quotes, without take-profit or stop-loss evaluation and without an order.
C30_FirstMatchWins ==
    ev.kind = "monitor"
    => /\ ev.out.sends <= 1
       /\ ev.out.tp_match => ev.out.rule # "sl"
       /\ (ev.mstatus \in {"settled", "closed", "finalized"} /\ ev.mresult # "")
          => /\ ev.out.rule \in {"settle", "error"}
             /\ ev.out.sends = 0
             /\ ~ev.out.tp_match
             /\ ~ev.out.should_stop
             /\ ev.out.curr_val = NoExit
             /\ ev.out.closed
                => ev.out.exit_value =
                     IF Lower(ev.mresult) \notin {"yes", "no"}
                     THEN store[ev.id].entry_price
                     ELSE IF Lower(ev.mresult) = Lower(store[ev.id].side) THEN 100 ELSE 0

\* C31: when the venue rejects the take-profit order of a live position, the
\* position only reaches the status display in that pass: it stays open, no
\* other exit rule closes it and no second close order is sent.  (The order
\* was rejected when take-profit matched, an order was sent, the position was
\* not closed by take-profit and the first call did not end in the handler.)
C31_RejectedTakeProfitOnlyDisplays ==
    ( /\ ev.kind = "monitor"
      /\ live
      /\ ev.out.tp_match
      /\ ev.out.sends >= 1
      /\ ev.out.rule # "tp"
      /\ ~(ev.out.rule = "error" /\ ev.out.sends = 1) )
    => /\ ev.out.rule = "none"
       /\ ~ev.out.closed
       /\ ev.out.sends = 1
       /\ store[ev.id].status = "open"

\* C32: for a position that reaches the stop-loss stage without a take-profit
\* match, the stop-loss condition is found true exactly when the loss
\* (entry_price - current_value) / entry_price is at least STOP_LOSS_PCT, or
\* the model has turned against the held side and the loss is above 5%; the
\* fixed stop alone is enough.
C32_StopLossTrigger ==
    ( /\ ev.kind = "monitor"
      /\ ev.out.curr_val # NoExit
      /\ ~ev.out.tp_match )
    => LET e == store[ev.id].entry_price
           c == ev.out.curr_val
       IN  /\ ev.out.should_stop
              <=> \/ 100 * (e - c) >= STOP_LOSS_PCT * e
                  \/ (ev.out.edge_flipped /\ 100 * (e - c) > EDGE_FLIP_LOSS_PCT * e)
           /\ 100 * (e - c) >= STOP_LOSS_PCT * e => ev.out.should_stop

\* C33: in the first monitor pass of a cycle the model-based condition is
\* never found true, and the stop-loss condition holds only when the loss is
\* at least STOP_LOSS_PCT of the entry price.
C33_FirstPassFixedStopOnly ==
    (ev.kind = "monitor" /\ ev.pass = 1)
    => /\ pc = "m1_loop"
       /\ ~ev.out.edge_flipped
       /\ ev.out.should_stop => ev.out.hard_stop
       /\ ev.out.rule = "sl" => ev.out.hard_stop
       /\ ev.out.hard_stop
          => 100 * (store[ev.id].entry_price - ev.out.curr_val)
             >= STOP_LOSS_PCT * store[ev.id].entry_price

\* C33 case: in the first pass a YES position bought at 0.40 is down to 0.27
\* in a market whose model value is below the ask, and is left open
C33_Witness ==
    /\ ev.kind = "monitor"
    /\ ev.pass = 1
    /\ ev.ticker = "KXBTC-A"
    /\ ev.yes_ask = 29
    /\ ev.out.curr_val = 27
    /\ ev.out.rule = "none"
    /\ store[ev.id].status = "open"

\* C34: an iteration of the monitor loop for a position whose market is not
\* settled and that matches neither a take-profit rule nor the stop-loss
\* condition changes nothing in the store or at the venue, sends no order
\* and writes no trade-log entry; it ends at the status display.
C34_NoTriggerFrame ==
    [][ ( /\ pc \in {"m1_loop", "m2_loop"} /\ mq # <<>>
          /\ ev'.kind = "monitor" /\ mq' = Tail(mq)
          /\ ~ev'.out.tp_match /\ ~ev'.out.should_stop
          /\ ev'.out.curr_val # NoExit )
        => /\ ev'.out.rule = "none"
           /\ store' = store
           /\ venue' = venue
           /\ cooling' = cooling
           /\ ev'.out.sends = 0
           /\ ev'.out.exits = 0
           /\ ev'.out.logged = 0
           /\ ~ev'.out.closed ]_vars

\* C34 case: in the second pass a position valued from its quote below the
\* entry price meets no rule and stays open
C34_Witness ==
    /\ ev.kind = "monitor"
    /\ ev.pass = 2
    /\ ev.mstatus = "active"
    /\ ~ev.out.tp_match
    /\ ~ev.out.should_stop
    /\ ev.out.curr_val # NoExit
    /\ ev.out.curr_val < store[ev.id].entry_price
    /\ ev.out.rule = "none"
    /\ ev.out.sends = 0
    /\ store[ev.id].status = "open"

\* C35: a scanned market becomes a candidate only when its close time parses
\* and its minutes to close lie in [TIME_MIN_MINS, TIME_MAX_MINS]; inside the
\* window, both ends included, a market that would be a candidate at ten
\* hours from its close is one.
C35_TimeWindow ==
    ev.kind = "scan"
    => LET m == ev.market
           t == m.mins_left
           inside == t # NoProb /\ TIME_MIN_MINS <= t /\ t <= TIME_MAX_MINS
       IN  /\ cands # <<>> => inside
           /\ pc = "execute" => inside
           /\ (inside /\ IsCandidate([m EXCEPT !.mins_left = 600], held))
              => (cands = <<Candidate(m)>> /\ pc = "execute")

\* C35 case: a market closing in exactly TIME_MIN_MINS minutes is a candidate
C35_Witness ==
    /\ ev.kind = "scan"
    /\ ev.market.mins_left = TIME_MIN_MINS
    /\ Len(cands) = 1
    /\ pc = "execute"

HoursPassing == {0, 84}

HoldClock(h, dt) == IF h + dt > MAX_HOLD_HOURS THEN MAX_HOLD_HOURS + 1 ELSE h + dt

\* a cycle about to start over one open position, opened an hour ago
HoldInit ==
    /\ live \in BOOLEAN
    /\ pc = "m1_begin"
    /\ cycle = 1
    /\ store \in { <<p @@ [hours_held |-> 1]>> : p \in HeldPositions(live) }
    /\ analyzed = {}
    /\ venue = [t \in MonitorTickers |->
                  IF live /\ store[1].market_id = t THEN store[1].quantity ELSE 0]
    /\ balance = NoBalance
    /\ exposure = NoBalance
    /\ held = {}
    /\ mq = <<>>
    /\ cands = <<>>
    /\ trades = 0
    /\ orders = 0
    /\ passes = 0
    /\ cooling = {}
    /\ ev = NoEv
    /\ late_exits = 0

\* Phases 2 and 3 of a cycle in which the balance is read, the venue holds
\* what the store holds, the exposure is under its limit and the BTC price
\* arrives: the second monitor pass comes next
HoldPhases ==
    /\ pc = "balance"
    /\ pc' = "m2_begin"
    /\ ev' = NoEv
    /\ UNCHANGED <<live, cycle, store, analyzed, venue, balance, exposure, held,
                   mq, cands, trades, orders, passes, cooling, late_exits>>

\* Phases 4 and 5 of a cycle in which no market is listed, the sleep, and the
\* cycles that follow it without a change: the time goes on
HoldSleep ==
    /\ pc = "scan"
    /\ pc' = "m1_begin"
    /\ \E dt \in HoursPassing :
          store' = [i \in 1..Len(store) |->
                      [store[i] EXCEPT !.hours_held = HoldClock(@, dt)]]
    /\ passes' = 0
    /\ late_exits' = 0
    /\ ev' = NoEv
    /\ UNCHANGED <<live, cycle, analyzed, venue, balance, exposure, held,
                   mq, cands, trades, orders, cooling>>

HoldNext == MonitorBegin \/ MonitorStep \/ MonitorEnd \/ HoldPhases \/ HoldSleep

\* the loop never stops: "while True"
HoldSpec == HoldInit /\ [][HoldNext]_vars /\ WF_vars(HoldNext)

\* C37: a position open for more than its max_hold_hours is closed
\* eventually by the monitor, unless a call of the monitor fails or a closing
\* order is rejected.
C37_MaxHoldCloses ==
    (store[1].status = "open" /\ store[1].hours_held > store[1].max_hold_hours)
    ~> \/ store[1].status = "closed"
       \/ (ev.kind = "monitor" /\ (ev.out.rule = "error" \/ ev.out.sends > 0))

\* C38: in paper mode no order reaches the venue: the entry phase calls
\* place_market_order for no candidate, the monitor calls close_position for
\* no position, and the venue holds nothing; positions are opened and closed
\* in the store alone.
C38_PaperModeSendsNoOrder ==
    ~live
    => /\ orders = 0
       /\ \A t \in DOMAIN venue : venue[t] = 0
       /\ ev.kind = "entry" => (~ev.sent /\ ev.order = "")
       /\ ev.kind = "monitor" => (ev.out.sends = 0 /\ ~ev.out.accepted)
       /\ \A i \in 1..Len(store) : ~store[i].live

\* C38 case: in paper mode the stop-loss closes a position in the store
\* without an order
C38_Witness ==
    /\ ~live
    /\ ev.kind = "monitor"
    /\ ev.out.rule = "sl"
    /\ ev.out.closed
    /\ ev.out.sends = 0
    /\ store[ev.id].status = "closed"
    /\ ~store[ev.id].live

\* ------------------------------------ two loops on one Position Store
\* run_weather_bot (src/weather_main.py) shares the store and the venue
\* account with run_bot.  Its steps are taken between any two steps of a
\* monitor pass of run_bot.
SharedTickers == MonitorTickers \cup {WeatherTicker}

\* YES asks under ENTRY_THRESHOLD at which run_weather_bot buys
WeatherAsks == {10, 14}

\* the Position run_weather_bot stores (weather_main.py 173-186)
WeatherPosition(price, isLive) ==
    [MkPosition(WeatherTicker, "YES", price, Max(1, MAX_POSITION_USD \div price), isLive)
       EXCEPT !.strategy = "weather_edge"]

SharedInit ==
    /\ live \in BOOLEAN
    /\ pc \in {"m1_begin", "m2_begin"}
    /\ cycle = 1
    /\ store \in {<<>>} \cup { <<p>> : p \in HeldPositions(live) }
    /\ analyzed = {}
    /\ venue = [t \in SharedTickers |->
                  IF live /\ store # <<>> /\ store[1].market_id = t
                  THEN store[1].quantity ELSE 0]
    /\ balance = NoBalance
    /\ exposure = NoBalance
    /\ held = {}
    /\ mq = <<>>
    /\ cands = <<>>
    /\ trades = 0
    /\ orders = 0
    /\ passes \in {0, 1}
    /\ passes = IF pc = "m1_begin" THEN 0 ELSE 1
    /\ cooling = {}
    /\ ev = NoEv
    /\ late_exits = 0

\* run_weather_bot buys a candidate it does not hold (weather_main.py 158-188);
\* in live mode the position is stored only when the order is accepted
WeatherEnter ==
    /\ \A i \in 1..Len(store) : store[i].market_id # WeatherTicker
    /\ \E price \in WeatherAsks, r \in {"ok", "rejected"} :
          LET pos == WeatherPosition(price, live)
              added == live => r = "ok"
          IN  /\ price < ENTRY_THRESHOLD
              /\ store' = IF added THEN AddPosition(store, pos) ELSE store
              /\ venue' = IF live /\ added
                          THEN [venue EXCEPT ![WeatherTicker] = @ + pos.quantity]
                          ELSE venue
              /\ ev' = [NoEv EXCEPT !.kind = "weather_entry", !.ticker = WeatherTicker,
                                    !.sent = live, !.added = added]
    /\ UNCHANGED <<live, pc, cycle, analyzed, balance, exposure, held, mq, cands,
                   trades, orders, passes, cooling, late_exits>>

\* monitor_weather_positions over the open position of strategy
\* "weather_edge" (weather_main.py 23-65): settlement, then the exit threshold
WeatherMonitor ==
    /\ \E i \in OpenPositions(store) :
          /\ store[i].strategy = "weather_edge"
          /\ \E m \in MonitorMarkets(store[i].market_id), r \in {"ok", "rejected"} :
                LET pos     == store[i]
                    settled == IsSettled(m)
                    exitv   == IF settled
                               THEN (IF Lower(pos.side) = Lower(m.result) THEN 100 ELSE 0)
                               ELSE m.yes_bid
                    tp      == ~settled /\ pos.side = "YES" /\ m.yes_bid >= EXIT_THRESHOLD
                    closes  == settled \/ (tp /\ (live => r = "ok"))
                IN  /\ store' = IF closes THEN ClosePositionWithPnl(store, i, exitv)
                                ELSE store
                    /\ venue' = IF settled THEN [venue EXCEPT ![pos.market_id] = 0]
                                ELSE IF tp /\ live /\ r = "ok"
                                THEN [venue EXCEPT ![pos.market_id] = Max(0, @ - pos.quantity)]
                                ELSE venue
                    /\ ev' = [NoEv EXCEPT !.kind = "weather_monitor", !.id = i,
                                          !.ticker = pos.market_id,
                                          !.sent = (tp /\ live)]
    /\ UNCHANGED <<live, pc, cycle, analyzed, balance, exposure, held, mq, cands,
                   trades, orders, passes, cooling, late_exits>>

SharedNext == MonitorBegin \/ MonitorStep \/ MonitorEnd \/ WeatherEnter \/ WeatherMonitor

SharedSpec == SharedInit /\ [][SharedNext]_vars

\* C39: the monitor of run_bot closes positions of strategy "vol_edge" only;
\* a position of strategy "weather_edge" is left as it is by every step of
\* run_bot.
C39_StrategyIsolation ==
    [][ (ev'.kind = "monitor" /\ pc \in {"m1_loop", "m2_loop"} /\ mq # <<>>
         /\ mq' = Tail(mq))
        => \A i \in 1..Len(store) :
              store[i].strategy = "weather_edge" => store'[i] = store[i] ]_vars

\* C40: when the monitor values a position whose quote is missing (yes_bid 0
\* for YES, yes_ask 0 for NO), the value is the entry price, so no stop-loss
\* condition holds, with or without the model against the position: the
\* position reaches the status display and stays open.
C40_MissingQuoteValuation ==
    ( /\ ev.kind = "monitor"
      /\ ev.out.curr_val # NoExit
      /\ IF store[ev.id].side = "YES" THEN ev.yes_bid = 0 ELSE ev.yes_ask = 0 )
    => /\ ev.out.curr_val = store[ev.id].entry_price
       /\ ~ev.out.hard_stop
       /\ ~ev.out.should_stop
       /\ ev.out.rule = "none"
       /\ ev.out.sends = 0
       /\ ~ev.out.closed
       /\ store[ev.id].status = "open"

\* C40 case: in the second pass a YES position has no bid and the model
\* value is below the ask; the position is valued at its entry price and
\* stays open
C40_Witness ==
    /\ ev.kind = "monitor"
    /\ ev.pass = 2
    /\ store[ev.id].side = "YES"
    /\ ev.yes_bid = 0
    /\ ev.yes_ask = 50
    /\ ev.out.edge_flipped
    /\ ev.out.curr_val = store[ev.id].entry_price
    /\ ev.out.rule = "none"

====
